---- MODULE Spec2Model ----
(***************************************************************************)
(* Turn-based combat engine: CombatState, the RulesEngine the session      *)
(* imports (engine/rules.py) and the CombatSession.run loop.               *)
(*                                                                         *)
(* An Event is kept as type/actor/target plus a short note and a number    *)
(* (the structured data a claim reads); the free-text message is dropped.  *)
(* Dice are nondeterministic: every die result is an input of the action   *)
(* that rolls it.                                                          *)
(***************************************************************************)
EXTENDS Integers, Sequences, FiniteSets, TLC

VARIABLES
  combatants,        \* CombatState.combatants: the roster, hp/flags/heals mutable
  round_num,         \* CombatState.round_num
  turn_index,        \* CombatState.turn_index
  initiative_order,  \* CombatState.initiative_order
  max_rounds,        \* argument of CombatSession.run
  log,               \* local `log` of CombatSession.run
  rolled,            \* what roll_initiative returned, alive until the order is installed
  last,              \* audit of the most recent resolve_action call (rolls, totals, before/after)
  pc,                \* position inside CombatSession.run
  on_event,          \* argument of CombatSession.run: TRUE when a sink is supplied
  sink,              \* the events the sink has been called with, in call order
  planner            \* one controller decision: configuration, legal list, returned action

vars == <<combatants, round_num, turn_index, initiative_order, max_rounds, log, rolled, last, pc,
          on_event, sink, planner>>

----------------------------------------------------------------------------
(* Bounds of the model                                                     *)

MaxRounds == 2
MaxTurns == 6
MaxBonus == 2
MaxAc == 21
MaxHp == 3

(* Program constants                                                       *)

D20Sides == 20
CritRoll == 20
GoblinLowHp == 3
GoblinHpDivisor == 4
AbilityBase == 10

NoId == "-"
NoDice == [ok |-> FALSE, n |-> 0, sides |-> 0, mod |-> 0]

\* A dice string _DICE_RE does not match, such as "2x6".
BadDice == [ok |-> FALSE, n |-> 2, sides |-> 6, mod |-> 0]

----------------------------------------------------------------------------
(* Small helpers                                                           *)

Max(a, b) == IF a >= b THEN a ELSE b
Min(a, b) == IF a <= b THEN a ELSE b

RECURSIVE SumSeq(_)
SumSeq(s) == IF Len(s) = 0 THEN 0 ELSE Head(s) + SumSeq(Tail(s))

----------------------------------------------------------------------------
(* engine/dice.py                                                          *)

\* A dice notation string, kept as the groups _DICE_RE extracts from it:
\* ok = the regex matched, n = the count digits (-1 when absent, as in "d20"),
\* sides, mod = the signed modifier (0 when absent).
Notation(n, sides, mod) == [ok |-> TRUE, n |-> n, sides |-> sides, mod |-> mod]

\* parse_dice: the count defaults to 1 when it is absent.
parse_dice(notation) ==
  [num_dice |-> IF notation.n < 0 THEN 1 ELSE notation.n,
   sides    |-> notation.sides,
   modifier |-> notation.mod]

\* Dice.roll raises ValueError: parse_dice on a string the regex does not
\* match, roll_die on sides <= 0.
roll_raises(notation) ==
  \/ ~notation.ok
  \/ parse_dice(notation).num_dice > 0 /\ parse_dice(notation).sides <= 0

\* The results roll_die can return for the dice of one Dice.roll call (none
\* is rolled when the call raises).
RollOutcomes(notation) ==
  LET expr == parse_dice(notation)
  IN  IF roll_raises(notation) THEN {<<>>} ELSE [1..expr.num_dice -> 1..expr.sides]

\* Dice.roll: total = sum(rolls) + modifier, for the die results `rs`.
roll(notation, rs) ==
  LET expr == parse_dice(notation)
  IN  [total |-> SumSeq(rs) + expr.modifier, rolls |-> rs, modifier |-> expr.modifier]

\* Dice.d20_disadvantage: the lower of two d20.
d20_disadvantage(a, b) == IF a <= b THEN a ELSE b

\* Dice.d20_advantage: the higher of two d20.
d20_advantage(a, b) == IF a >= b THEN a ELSE b

\* Dice.d20_with_adv_state: the chosen d20 for the dice a (and b when two are rolled).
d20_with_adv_state(adv_state, a, b) ==
  IF adv_state = "normal" THEN a
  ELSE IF adv_state = "adv" THEN d20_advantage(a, b)
  ELSE d20_disadvantage(a, b)

----------------------------------------------------------------------------
(* engine/models                                                           *)

\* ability_mod: (score - 10) // 2, floor division.
ability_mod(score) == (score - AbilityBase) \div 2

AttackProfile(name, attack_bonus, damage_dice) ==
  [name |-> name, attack_bonus |-> attack_bonus, damage_dice |-> damage_dice]

\* The guardrails of __post_init__: a non-positive max_hp or ac raises
\* ValueError and no combatant is built.
post_init_accepts(ac, max_hp) == ~(max_hp <= 0) /\ ~(ac <= 0)

\* Combatant with __post_init__: hp is clamped into 0..max_hp.
Combatant(id, name, team, ac, max_hp, hp, dex, attacks, heals_remaining, heal_dice) ==
  [id |-> id, name |-> name, team |-> team, ac |-> ac, max_hp |-> max_hp,
   hp |-> IF hp < 0 THEN 0 ELSE IF hp > max_hp THEN max_hp ELSE hp,
   dex |-> dex, attacks |-> attacks, flags |-> {},
   heals_remaining |-> heals_remaining, heal_dice |-> heal_dice]

dex_mod(c) == ability_mod(c.dex)

alive(c) == c.hp > 0

\* Combatant.choose_attack: what it raises, if anything.
choose_attack_raises(c, index) ==
  IF c.attacks = <<>> THEN "no_attacks"
  ELSE IF index < 0 \/ index >= Len(c.attacks) THEN "attack_index"
  ELSE "none"

\* Combatant.choose_attack when it returns: self.attacks[index].
choose_attack(c, index) == c.attacks[index + 1]

\* ActionType = Literal["attack", "defend", "heal", "wait"]
ActionTypes == {"attack", "defend", "heal", "wait"}

ActionDeclaration(actor_id, type, target_ids, attack_index, heal_dice) ==
  [actor_id |-> actor_id, type |-> type, target_ids |-> target_ids,
   attack_index |-> attack_index, heal_dice |-> heal_dice]

Event(type, actor, target, note, num) ==
  [type |-> type, actor |-> actor, target |-> target, note |-> note, num |-> num]

----------------------------------------------------------------------------
(* engine/state.py                                                         *)

\* CombatState.get finds a combatant with id `cid`; otherwise it raises
\* KeyError.
known(cs, cid) == \E i \in 1..Len(cs) : cs[i].id = cid

\* CombatState.get when it returns: the roster position of id `cid`.
get(cs, cid) == CHOOSE i \in 1..Len(cs) : cs[i].id = cid

alive_teams(cs) == {cs[i].team : i \in {j \in 1..Len(cs) : alive(cs[j])}}

is_over(cs) == Cardinality(alive_teams(cs)) <= 1

\* Variant: the team of the first combatant instead of the surviving team.
winner_team_first(cs) ==
  IF Cardinality(alive_teams(cs)) = 1 THEN cs[1].team ELSE NoId

winner_team(cs) ==
  IF Cardinality(alive_teams(cs)) = 1
  THEN CHOOSE t \in alive_teams(cs) : TRUE
  ELSE NoId

\* Variant: every advance starts a new round.
advance_turn_eager(ti, rn, order) ==
  [turn_index |-> IF ti + 1 >= Len(order) THEN 0 ELSE ti + 1, round_num |-> rn + 1]

\* CombatState.advance_turn: the next (turn_index, round_num).
advance_turn(ti, rn, order) ==
  IF ti + 1 >= Len(order)
  THEN [turn_index |-> 0, round_num |-> rn + 1]
  ELSE [turn_index |-> ti + 1, round_num |-> rn]

\* CombatState.current_turn_id (turn_index is 0-based).
current_turn_id(order, ti) == order[ti + 1]

----------------------------------------------------------------------------
(* engine/systems/combat/targeting.py                                      *)

\* first_alive_enemy: the first living combatant of another team, in roster
\* order; NoId when there is none.
first_alive_enemy(cs, actor) ==
  LET enemies == {i \in 1..Len(cs) : alive(cs[i]) /\ cs[i].team # actor.team}
  IN  IF enemies = {} THEN NoId
      ELSE cs[CHOOSE i \in enemies : \A j \in enemies : i <= j].id

----------------------------------------------------------------------------
(* engine/rules.py: the RulesEngine imported by engine/session.py          *)

\* What one resolve_action call leaves behind for inspection: the dice it
\* used, the totals it computed and the fields before and after.
NoAudit ==
  [type |-> "none", actor |-> NoId, target |-> NoId, declared |-> <<>>, noop |-> TRUE,
   adv_state |-> "normal", d20 |-> 0, attack_bonus |-> 0, total_to_hit |-> 0,
   target_ac |-> 0, hit |-> FALSE, crit |-> FALSE,
   dmg1 |-> <<>>, dmg2 |-> <<>>, modifier |-> 0, amount |-> 0,
   hp_before |-> 0, hp_after |-> 0, heals_before |-> 0, heals_after |-> 0,
   error |-> "none"]

\* The part of an audit the session keeps between turns: the dice are gone
\* with the call that rolled them.
session_view(audit) ==
  [audit EXCEPT !.d20 = 0, !.total_to_hit = 0, !.dmg1 = <<>>, !.dmg2 = <<>>, !.amount = 0]

Outcome(cs, events, audit) == [combatants |-> cs, events |-> events, audit |-> audit]

\* Variant: the events collected before the exception reach the caller.
raised_partial(cs, events, audit, error) ==
  Outcome(cs, events, [audit EXCEPT !.error = error])

\* An exception leaves resolve_action: `events`, the local list collected so
\* far, is not returned; cs is the state with the assignments made before the
\* raise.
raised(cs, events, audit, error) ==
  Outcome(cs, <<>>, [audit EXCEPT !.error = error])

\* The audit of a call that raised before it had looked anything up.
lookup_audit(action) ==
  [NoAudit EXCEPT !.type = action.type, !.actor = action.actor_id,
                  !.declared = action.target_ids]

\* One entry of `rolls` in roll_initiative.
InitiativeRoll(c, d) ==
  [total |-> d + dex_mod(c), dex_mod |-> dex_mod(c), id |-> c.id, name |-> c.name]

\* rolls.sort(key=lambda x: x[0], reverse=True): x goes before y when its key
\* is larger.
sorts_before(x, y) == x.total > y.total

\* list.sort is stable, also with reverse=True: entries the key does not
\* separate keep the order they were appended in. The place of rs[i] in the
\* sorted list is one more than the number of entries that go before it.
sorted_place(rs, i) ==
  1 + Cardinality({j \in 1..Len(rs) :
                     \/ sorts_before(rs[j], rs[i])
                     \/ (~sorts_before(rs[i], rs[j]) /\ j < i)})

sort_rolls(rs) ==
  [p \in 1..Len(rs) |-> rs[CHOOSE i \in 1..Len(rs) : sorted_place(rs, i) = p]]

\* roll_initiative: d20s[i] is the d20 of combatant i.
\* Variant: the last combatant is left out of the rolls.
initiative_rolls_short(cs, d20s) ==
  [i \in 1..(Len(cs) - 1) |-> InitiativeRoll(cs[i], d20s[i])]

initiative_rolls(cs, d20s) == [i \in 1..Len(cs) |-> InitiativeRoll(cs[i], d20s[i])]

roll_initiative(cs, d20s) ==
  LET sorted == sort_rolls(initiative_rolls(cs, d20s))
  IN  [d20s   |-> d20s,
       rolls  |-> sorted,
       order  |-> [i \in 1..Len(sorted) |-> sorted[i].id],
       events |-> [i \in 1..Len(cs) |-> Event("initiative", cs[i].id, NoId, "roll", 0)]]

NotRolled == [d20s |-> <<>>, rolls |-> <<>>, order |-> <<>>, events |-> <<>>]

\* is_crit / hit of _resolve_attack.
is_crit(d20) == d20 = CritRoll

\* Variant: no natural-20 rule.
attack_hits_total_only(d20, attack_bonus, ac) == d20 + attack_bonus >= ac

attack_hits(d20, attack_bonus, ac) == is_crit(d20) \/ (d20 + attack_bonus >= ac)

\* Variant: a crit doubles the dice but adds the modifier once.
damage_total_dice_only(damage_dice, crit, r1, r2) ==
  IF crit
  THEN roll(damage_dice, r1).total + SumSeq(r2)
  ELSE roll(damage_dice, r1).total

\* The damage of _resolve_attack: one roll of the expression, two on a crit.
damage_total(damage_dice, crit, r1, r2) ==
  IF crit
  THEN roll(damage_dice, r1).total + roll(damage_dice, r2).total
  ELSE roll(damage_dice, r1).total

\* defender.hp = max(0, defender.hp - dmg_total)
hp_after_damage(hp, dmg_total) == Max(0, hp - dmg_total)

\* actor.hp = min(actor.max_hp, actor.hp + roll.total)
hp_after_heal(hp, max_hp, total) == Min(max_hp, hp + total)

\* heal_dice = str(action.data.get("heal_dice", "1d8+2"))
DefaultHealDice == Notation(1, 8, 2)

heal_dice_of(action) ==
  IF action.heal_dice # NoDice THEN action.heal_dice ELSE DefaultHealDice

\* Variant: the stance is taken without the alive check.
_resolve_defend_unguarded(cs, action) ==
  LET i == get(cs, action.actor_id)
      actor == cs[i]
  IN  IF ~known(cs, action.actor_id)
      THEN raised(cs, <<>>, lookup_audit(action), "unknown_id")
      ELSE
      Outcome([cs EXCEPT ![i].flags = @ \cup {"defending"}],
              <<Event("turn_start", actor.id, NoId, "flag_added", 0)>>,
              [NoAudit EXCEPT !.type = "defend", !.actor = actor.id, !.noop = FALSE,
                              !.hp_before = actor.hp, !.hp_after = actor.hp,
                              !.heals_before = actor.heals_remaining,
                              !.heals_after = actor.heals_remaining])

_resolve_defend(cs, action) ==
  LET i == get(cs, action.actor_id)
      actor == cs[i]
  IN  IF ~known(cs, action.actor_id)
      THEN raised(cs, <<>>, lookup_audit(action), "unknown_id")
      ELSE IF ~alive(actor) THEN Outcome(cs, <<>>, [NoAudit EXCEPT !.type = "defend", !.actor = actor.id])
      ELSE Outcome([cs EXCEPT ![i].flags = @ \cup {"defending"}],
                   <<Event("turn_start", actor.id, NoId, "flag_added", 0)>>,
                   [NoAudit EXCEPT !.type = "defend", !.actor = actor.id, !.noop = FALSE,
                                   !.hp_before = actor.hp, !.hp_after = actor.hp,
                                   !.heals_before = actor.heals_remaining,
                                   !.heals_after = actor.heals_remaining])

_resolve_wait(cs, action) ==
  LET i == get(cs, action.actor_id)
      actor == cs[i]
  IN  IF ~known(cs, action.actor_id)
      THEN raised(cs, <<>>, lookup_audit(action), "unknown_id")
      ELSE IF ~alive(actor) THEN Outcome(cs, <<>>, [NoAudit EXCEPT !.type = "wait", !.actor = actor.id])
      ELSE Outcome(cs,
                   <<Event("turn_start", actor.id, NoId, "waits", 0)>>,
                   [NoAudit EXCEPT !.type = "wait", !.actor = actor.id, !.noop = FALSE,
                                   !.hp_before = actor.hp, !.hp_after = actor.hp,
                                   !.heals_before = actor.heals_remaining,
                                   !.heals_after = actor.heals_remaining])

\* Variant: the healer is not checked for being alive.
_resolve_heal_unguarded(cs, action, r1) ==
  LET i == get(cs, action.actor_id)
      actor == cs[i]
      healed == roll(heal_dice_of(action), r1)
      hp2 == hp_after_heal(actor.hp, actor.max_hp, healed.total)
  IN  IF ~known(cs, action.actor_id)
      THEN raised(cs, <<>>, lookup_audit(action), "unknown_id")
      ELSE
      Outcome([cs EXCEPT ![i].hp = hp2],
              <<Event("damage", actor.id, NoId, "heal", 0)>>,
              [NoAudit EXCEPT !.type = "heal", !.actor = actor.id, !.noop = FALSE,
                              !.amount = healed.total,
                              !.hp_before = actor.hp, !.hp_after = hp2,
                              !.heals_before = actor.heals_remaining,
                              !.heals_after = actor.heals_remaining])

\* _resolve_heal of engine/rules.py: r1 are the die results of the heal roll.
_resolve_heal(cs, action, r1) ==
  LET i == get(cs, action.actor_id)
      actor == cs[i]
      heal_dice == heal_dice_of(action)
      healed == roll(heal_dice, r1)
      hp2 == hp_after_heal(actor.hp, actor.max_hp, healed.total)
  IN  IF ~known(cs, action.actor_id)
      THEN raised(cs, <<>>, lookup_audit(action), "unknown_id")
      ELSE IF ~alive(actor) THEN Outcome(cs, <<>>, [NoAudit EXCEPT !.type = "heal", !.actor = actor.id])
      ELSE IF roll_raises(heal_dice)
      THEN raised(cs, <<>>,
                  [NoAudit EXCEPT !.type = "heal", !.actor = actor.id, !.noop = FALSE],
                  "invalid_dice")
      ELSE Outcome([cs EXCEPT ![i].hp = hp2],
                   <<Event("damage", actor.id, NoId, "heal", 0)>>,
                   [NoAudit EXCEPT !.type = "heal", !.actor = actor.id, !.noop = FALSE,
                                   !.dmg1 = r1, !.modifier = healed.modifier,
                                   !.amount = healed.total,
                                   !.hp_before = actor.hp, !.hp_after = hp2,
                                   !.heals_before = actor.heals_remaining,
                                   !.heals_after = actor.heals_remaining])

\* Variant: a defending target is attacked like any other.
adv_state_for_normal(defender) == "normal"

\* adv_state = "dis" if "defending" in defender.flags else "normal"
adv_state_for(defender) == IF "defending" \in defender.flags THEN "dis" ELSE "normal"

\* Variant: "down" is reported at 1 hit point too.
down_events_low(attacker, defender, hp2) ==
  IF hp2 <= 1 THEN <<Event("down", attacker.id, defender.id, "down", 0)>> ELSE <<>>

\* if defender.hp == 0: events.append(Event(type="down", ...))
down_events(attacker, defender, hp2) ==
  IF hp2 = 0 THEN <<Event("down", attacker.id, defender.id, "down", 0)>> ELSE <<>>

\* Variant: the early returns report a miss.
silent_attack_logged(cs, action) ==
  Outcome(cs, <<Event("miss", action.actor_id, NoId, "miss", 0)>>,
          [NoAudit EXCEPT !.type = "attack", !.actor = action.actor_id,
                          !.declared = action.target_ids])

\* The early `return events` of _resolve_attack: events is still empty and
\* nothing has been assigned.
silent_attack(cs, action) ==
  Outcome(cs, <<>>,
          [NoAudit EXCEPT !.type = "attack", !.actor = action.actor_id,
                          !.declared = action.target_ids])

\* _resolve_attack of engine/rules.py: a, b are the d20 results (b is rolled
\* only at disadvantage), r1, r2 the die results of the damage rolls.
_resolve_attack(cs, action, a, b, r1, r2) ==
  LET ai == get(cs, action.actor_id)
      attacker == cs[ai]
      silent == silent_attack(cs, action)
  IN  IF ~known(cs, action.actor_id)
      THEN raised(cs, <<>>, lookup_audit(action), "unknown_id")
      ELSE IF ~alive(attacker) THEN silent
      ELSE IF Len(action.target_ids) = 0 THEN silent
      ELSE IF ~known(cs, action.target_ids[1])
      THEN raised(cs, <<>>, lookup_audit(action), "unknown_id")
      ELSE
        LET di == get(cs, action.target_ids[1])
            defender == cs[di]
        IN  IF ~alive(defender) THEN silent
            ELSE IF choose_attack_raises(attacker, action.attack_index) # "none"
            THEN raised(cs, <<>>, lookup_audit(action),
                        choose_attack_raises(attacker, action.attack_index))
            ELSE
              LET atk == choose_attack(attacker, action.attack_index)
                  adv_state == adv_state_for(defender)
                  d20 == d20_with_adv_state(adv_state, a, b)
                  total_to_hit == d20 + atk.attack_bonus
                  crit == is_crit(d20)
                  hit == attack_hits(d20, atk.attack_bonus, defender.ac)
                  dmg_total == damage_total(atk.damage_dice, crit, r1, r2)
                  before == defender.hp
                  hp2 == hp_after_damage(defender.hp, dmg_total)
                  audit == [NoAudit EXCEPT !.type = "attack", !.actor = attacker.id,
                                           !.target = defender.id, !.noop = FALSE,
                                           !.declared = action.target_ids,
                                           !.adv_state = adv_state, !.d20 = d20,
                                           !.attack_bonus = atk.attack_bonus,
                                           !.total_to_hit = total_to_hit,
                                           !.target_ac = defender.ac,
                                           !.hit = hit, !.crit = crit,
                                           !.hp_before = before, !.hp_after = before,
                                           !.heals_before = attacker.heals_remaining,
                                           !.heals_after = attacker.heals_remaining]
                  roll_event == Event("attack_roll", attacker.id, defender.id, adv_state, 0)
              IN  IF ~hit
                  THEN Outcome(cs,
                               <<roll_event, Event("miss", attacker.id, defender.id, "miss", 0)>>,
                               audit)
                  ELSE IF roll_raises(atk.damage_dice)
                  THEN raised(cs,
                              <<roll_event,
                                Event("hit", attacker.id, defender.id,
                                      IF crit THEN "crit" ELSE "hit", 0)>>,
                              audit, "invalid_dice")
                  ELSE Outcome([cs EXCEPT ![di].hp = hp2],
                               <<roll_event,
                                 Event("hit", attacker.id, defender.id,
                                       IF crit THEN "crit" ELSE "hit", 0),
                                 Event("damage", attacker.id, defender.id, "damage", 0)>>
                               \o down_events(attacker, defender, hp2),
                               [audit EXCEPT !.dmg1 = r1,
                                             !.dmg2 = IF crit THEN r2 ELSE <<>>,
                                             !.modifier = parse_dice(atk.damage_dice).modifier,
                                             !.amount = dmg_total,
                                             !.hp_after = hp2])

\* Variant: an unknown action type is resolved as "wait".
resolve_action_lenient(cs, action, a, b, r1, r2) ==
  IF action.type = "attack" THEN _resolve_attack(cs, action, a, b, r1, r2)
  ELSE IF action.type = "defend" THEN _resolve_defend(cs, action)
  ELSE IF action.type = "heal" THEN _resolve_heal(cs, action, r1)
  ELSE [_resolve_wait(cs, action) EXCEPT !.audit.type = action.type]

\* resolve_action: dispatch on action.type; any other type raises ValueError.
resolve_action(cs, action, a, b, r1, r2) ==
  IF action.type = "attack" THEN _resolve_attack(cs, action, a, b, r1, r2)
  ELSE IF action.type = "defend" THEN _resolve_defend(cs, action)
  ELSE IF action.type = "heal" THEN _resolve_heal(cs, action, r1)
  ELSE IF action.type = "wait" THEN _resolve_wait(cs, action)
  ELSE Outcome(cs, <<>>, [NoAudit EXCEPT !.type = action.type, !.actor = action.actor_id,
                                         !.declared = action.target_ids,
                                         !.error = "unsupported_action"])

\* The random draws one resolve_action call consumes, as [a, b, r1, r2]; a
\* draw the call does not make is pinned to a fixed value.
D20 == 1..D20Sides

DiceDraws(cs, action) ==
  LET none == {[a |-> 1, b |-> 1, r1 |-> <<>>, r2 |-> <<>>]}
      actor == cs[get(cs, action.actor_id)]
  IN  IF ~known(cs, action.actor_id) THEN none
      ELSE IF ~alive(actor) THEN none
      ELSE IF action.type = "heal"
      THEN {[a |-> 1, b |-> 1, r1 |-> r, r2 |-> <<>>] : r \in RollOutcomes(heal_dice_of(action))}
      ELSE IF action.type # "attack" \/ Len(action.target_ids) = 0 THEN none
      ELSE IF ~known(cs, action.target_ids[1]) THEN none
      ELSE
        LET defender == cs[get(cs, action.target_ids[1])]
            atk == choose_attack(actor, action.attack_index)
            dis == adv_state_for(defender) = "dis"
            dmg == RollOutcomes(atk.damage_dice)
        IN  IF ~alive(defender) THEN none
            ELSE IF choose_attack_raises(actor, action.attack_index) # "none" THEN none
            ELSE UNION {
              UNION {
                LET d20 == IF dis THEN d20_disadvantage(a, b) ELSE a
                IN  IF ~attack_hits(d20, atk.attack_bonus, defender.ac)
                    THEN {[a |-> a, b |-> b, r1 |-> <<>>, r2 |-> <<>>]}
                    ELSE IF is_crit(d20)
                    THEN {[a |-> a, b |-> b, r1 |-> x, r2 |-> y] : x \in dmg, y \in dmg}
                    ELSE {[a |-> a, b |-> b, r1 |-> x, r2 |-> <<>>] : x \in dmg}
                : b \in (IF dis THEN D20 ELSE {a})}
              : a \in D20}

----------------------------------------------------------------------------
(* engine/session.py                                                       *)

\* _prompt_player_action: the declarations the prompt can return; "attack" is
\* refused while there is no target.
_prompt_player_action(actor, target) ==
  (IF target = NoId THEN {}
   ELSE {ActionDeclaration(actor.id, "attack", <<target>>, 0, NoDice)})
  \cup {ActionDeclaration(actor.id, "defend", <<>>, 0, NoDice),
        ActionDeclaration(actor.id, "heal", <<actor.id>>, 0, NoDice),
        ActionDeclaration(actor.id, "wait", <<>>, 0, NoDice)}

_goblin_policy(actor, target) ==
  IF /\ actor.hp <= Max(GoblinLowHp, actor.max_hp \div GoblinHpDivisor)
     /\ (actor.hp + dex_mod(actor)) % 2 = 0
  THEN ActionDeclaration(actor.id, "defend", <<>>, 0, NoDice)
  ELSE IF target = NoId
  THEN ActionDeclaration(actor.id, "wait", <<>>, 0, NoDice)
  ELSE ActionDeclaration(actor.id, "attack", <<target>>, 0, NoDice)

\* The declarations the session can obtain for the actor's turn.
declared_actions(cs, actor) ==
  LET target == first_alive_enemy(cs, actor)
  IN  IF actor.team = "party"
      THEN _prompt_player_action(actor, target)
      ELSE {_goblin_policy(actor, target)}

\* Variant: the round bound taken as exclusive.
loop_continues_exclusive(cs, rn, mr) == ~is_over(cs) /\ rn < mr

\* while not state.is_over() and state.round_num <= max_rounds
loop_continues(cs, rn, mr) == ~is_over(cs) /\ rn <= mr

\* Variant: `continue` without advancing the turn.
skip_dead_turn_stuck(ti, rn, order) == [turn_index |-> ti, round_num |-> rn]

\* if not actor.alive: state.advance_turn(); continue
skip_dead_turn(ti, rn, order) == advance_turn(ti, rn, order)

\* Variant: a dead actor is given its turn.
turn_is_skipped_never(actor) == FALSE

\* if not actor.alive
turn_is_skipped(actor) == ~alive(actor)

\* Variant: the flag is left in place.
clear_defending_never(cs, i) == cs

\* Variant: every combatant's flag is dropped at any turn start.
clear_defending_all(cs, i) ==
  [j \in 1..Len(cs) |-> [cs[j] EXCEPT !.flags = @ \ {"defending"}]]

\* actor.flags.discard("defending")
clear_defending(cs, i) == [cs EXCEPT ![i].flags = @ \ {"defending"}]

\* Variant: the turn event stamped with the following round.
turn_start_event_next(actor, rn) == Event("turn_start", actor.id, NoId, "round", rn + 1)

\* turn_event: type turn_start, data {"round": state.round_num}
turn_start_event(actor, rn) == Event("turn_start", actor.id, NoId, "round", rn)

\* Variant: only the last event of a batch reaches the sink.
_emit_last(received, events, on) ==
  IF ~on \/ Len(events) = 0 THEN received ELSE Append(received, events[Len(events)])

\* CombatSession._emit: nothing without a sink, else sink(e) for each event in
\* order.
_emit(received, events, on) == IF ~on THEN received ELSE received \o events

\* The controllers CombatSession.run is given: its signature takes the
\* combatants, max_rounds and on_event, so no combatant id has one.
controllers == {}

\* No controller decision in progress.
NoPlanner == [actor |-> NoId, epsilon |-> 0, rollouts |-> 0, legal |-> <<>>, chosen |-> <<>>]

\* Variant: any living team is named.
end_event_any(cs) ==
  LET teams == alive_teams(cs)
  IN  Event("combat_end", NoId, NoId,
            IF teams # {} THEN CHOOSE t \in teams : TRUE ELSE "no_winner", 0)

\* The final event: the winner team, or no winner.
end_event(cs) ==
  LET winner == winner_team(cs)
  IN  Event("combat_end", NoId, NoId, IF winner # NoId THEN winner ELSE "no_winner", 0)

----------------------------------------------------------------------------
(* Rosters                                                                 *)

Claw   == AttackProfile("Claw", 0, Notation(1, 4, 0))
Maul   == AttackProfile("Maul", 99, Notation(1, 4, 0))
Sword  == AttackProfile("Sword", 2, Notation(-1, 4, 1))
Dagger == AttackProfile("Dagger", 2, Notation(-1, 2, 0))
Sling  == AttackProfile("Sling", -2, Notation(1, 2, 0))
Bite   == AttackProfile("Bite", 4, Notation(1, 2, 0))
Club   == AttackProfile("Club", 5, Notation(1, 2, -2))

\* Two combatants, teams "A" and "B": A has ac 10 and 1 hp, B attacks at +99
\* for 1d4. A's dexterity decides whether its policy attacks or defends.
DuelRoster(dexA) ==
  <<Combatant("a", "A", "A", 10, 1, 1, dexA, <<Claw>>, 0, Notation(1, 8, 2)),
    Combatant("b", "B", "B", 12, 4, 4, 10, <<Maul>>, 0, Notation(1, 8, 2))>>

\* A prompted hero without heal charges against a goblin whose damage
\* expression has a negative modifier.
DuoRoster ==
  <<Combatant("h", "Hero", "party", 15, 2, 2, 12, <<Sword>>, 0, Notation(1, 8, 2)),
    Combatant("g1", "Grik", "enemies", 12, 2, 2, 13, <<Club>>, 0, Notation(1, 8, 2))>>

\* A prompted hero with one heal charge against two goblins (the second is
\* built with hp above max_hp).
SkirmishRoster ==
  <<Combatant("h", "Hero", "party", 19, 4, 3, 12, <<Dagger>>, 1, Notation(1, 8, 2)),
    Combatant("g1", "Grik", "enemies", 12, 3, 3, 14, <<Sling>>, 0, Notation(1, 8, 2)),
    Combatant("g2", "Snag", "enemies", 12, 3, 9, 14, <<Bite>>, 0, Notation(1, 8, 2))>>

\* Three policy-driven combatants, two of them on one team.
TrioRoster ==
  <<Combatant("a1", "Alpha", "A", 12, 3, 3, 10, <<Bite>>, 0, Notation(1, 8, 2)),
    Combatant("b1", "Beta", "B", 12, 1, 1, 10, <<Sling>>, 0, Notation(1, 8, 2)),
    Combatant("b2", "Gamma", "B", 12, 2, 2, 12, <<Claw>>, 0, Notation(1, 8, 2))>>

LiveRosters == {<<>>, DuelRoster(10), DuelRoster(12), TrioRoster}

Rosters == {<<>>, DuelRoster(10), DuelRoster(12), DuoRoster, SkirmishRoster}

----------------------------------------------------------------------------
(* CombatSession.run                                                       *)

InitWith(rosters, sinks) ==
  /\ combatants \in rosters
  /\ round_num = 1
  /\ turn_index = 0
  /\ initiative_order = <<>>
  /\ max_rounds \in {m \in 1..MaxRounds : m * Len(combatants) <= MaxTurns}
  /\ log = <<>>
  /\ rolled = NotRolled
  /\ last = NoAudit
  /\ pc = "start"
  /\ on_event \in sinks
  /\ sink = <<>>
  /\ planner = NoPlanner

Init == InitWith(Rosters, BOOLEAN)

LiveInit == InitWith(LiveRosters, {TRUE})

\* roll_initiative, one pass of `for c in combatants`: the d20 of the next
\* combatant.
RollInitiative ==
  /\ pc = "start"
  /\ Len(rolled.d20s) < Len(combatants)
  /\ \E d \in D20 : rolled' = [rolled EXCEPT !.d20s = Append(@, d)]
  /\ UNCHANGED <<combatants, round_num, turn_index, initiative_order, max_rounds, log, last, pc,
               on_event, sink, planner>>

\* roll_initiative after its loop: sort the rolls and return the order.
SortInitiative ==
  /\ pc = "start"
  /\ Len(rolled.d20s) = Len(combatants)
  /\ rolled' = roll_initiative(combatants, rolled.d20s)
  /\ pc' = "rolled"
  /\ UNCHANGED <<combatants, round_num, turn_index, initiative_order, max_rounds, log, last,
               on_event, sink, planner>>

\* state.initiative_order = order; the initiative events and the summary
\* event (typed "combat_end") go to the log.
InstallInitiative ==
  /\ pc = "rolled"
  /\ initiative_order' = rolled.order
  /\ LET e == Event("combat_end", NoId, NoId, "initiative_order", 0)
     IN  /\ log' = log \o rolled.events \o <<e>>
         /\ sink' = _emit(_emit(sink, rolled.events, on_event), <<e>>, on_event)
  /\ rolled' = NotRolled
  /\ pc' = "loop"
  /\ UNCHANGED <<combatants, round_num, turn_index, max_rounds, last, on_event, planner>>

\* A loop iteration whose actor is dead.
SkipDead ==
  /\ pc = "loop"
  /\ loop_continues(combatants, round_num, max_rounds)
  /\ LET actor == combatants[get(combatants, current_turn_id(initiative_order, turn_index))]
         next == skip_dead_turn(turn_index, round_num, initiative_order)
     IN  /\ turn_is_skipped(actor)
         /\ turn_index' = next.turn_index
         /\ round_num' = next.round_num
  /\ UNCHANGED <<combatants, initiative_order, max_rounds, log, rolled, last, pc,
               on_event, sink, planner>>

\* A loop iteration whose actor is alive: clear the flag, emit the turn
\* event, obtain a declaration, resolve it, advance the turn.
TakeTurn ==
  /\ pc = "loop"
  /\ loop_continues(combatants, round_num, max_rounds)
  /\ LET i == get(combatants, current_turn_id(initiative_order, turn_index))
         cs1 == clear_defending(combatants, i)
         actor == cs1[i]
         turn_event == turn_start_event(actor, round_num)
         next == advance_turn(turn_index, round_num, initiative_order)
     IN  /\ ~turn_is_skipped(combatants[i])
         /\ \E action \in declared_actions(cs1, actor) :
              \E d \in DiceDraws(cs1, action) :
                LET out == resolve_action(cs1, action, d.a, d.b, d.r1, d.r2)
                IN  /\ combatants' = out.combatants
                    /\ log' = log \o <<turn_event>> \o out.events
                    /\ sink' = _emit(_emit(sink, <<turn_event>>, on_event), out.events, on_event)
                    /\ last' = session_view(out.audit)
         /\ turn_index' = next.turn_index
         /\ round_num' = next.round_num
  /\ UNCHANGED <<initiative_order, max_rounds, rolled, pc, on_event, planner>>

\* The loop condition fails: emit the final event and return the log.
ExitLoop ==
  /\ pc = "loop"
  /\ ~loop_continues(combatants, round_num, max_rounds)
  /\ log' = Append(log, end_event(combatants))
  /\ sink' = _emit(sink, <<end_event(combatants)>>, on_event)
  /\ pc' = "done"
  /\ UNCHANGED <<combatants, round_num, turn_index, initiative_order, max_rounds, rolled, last,
                 on_event, planner>>

Next == RollInitiative \/ SortInitiative \/ InstallInitiative \/ SkipDead \/ TakeTurn \/ ExitLoop

Spec == Init /\ [][Next]_vars

\* The loop is sequential code: a step that can run does run.
FairSpec == LiveInit /\ [][Next]_vars /\ WF_vars(Next)

----------------------------------------------------------------------------
(* RulesEngine.resolve_action called on its own: one call on a two-sided    *)
(* state, the dice of the call kept in `last`.                              *)

MinAc == 17

Strikes ==
  {AttackProfile("Strike", bonus, dice) :
     bonus \in (0 - MaxBonus)..MaxBonus,
     dice \in {Notation(1, 2, 1), Notation(2, 2, -1), BadDice}}

\* The attacker "x", up or down, with one attack or none, and a target "y"
\* that may be down or defending.
\* An id no combatant of the arena has.
Stranger == "q"

Arsenals == {<<strike>> : strike \in Strikes} \cup {<<>>}

Arenas ==
  {<<Combatant("x", "X", "x", 12, MaxHp, xhp, 10, attacks, 1, Notation(1, 8, 2)),
     [Combatant("y", "Y", "y", ac, MaxHp, hp, 10, <<Claw>>, 0, Notation(1, 8, 2))
        EXCEPT !.flags = flags]>> :
     attacks \in Arsenals, xhp \in {0, MaxHp},
     ac \in {n \in {0} \cup MinAc..MaxAc : post_init_accepts(n, MaxHp)},
     hp \in {0, 1, MaxHp}, flags \in {{}, {"defending"}}}

ArenaActions ==
  {ActionDeclaration("x", "attack", <<"y">>, 0, NoDice),
   ActionDeclaration("x", "attack", <<>>, 0, NoDice),
   ActionDeclaration("x", "defend", <<>>, 0, NoDice),
   ActionDeclaration("x", "heal", <<"x">>, 0, NoDice),
   ActionDeclaration("x", "wait", <<>>, 0, NoDice),
   ActionDeclaration("x", "dance", <<"y">>, 0, NoDice),
   ActionDeclaration("x", "attack", <<"y">>, 1, NoDice),
   ActionDeclaration("x", "attack", <<Stranger>>, 0, NoDice)}
  \cup {ActionDeclaration(Stranger, type, <<"y">>, 0, NoDice) : type \in ActionTypes}

RulesInit ==
  /\ combatants \in Arenas
  /\ round_num = 1
  /\ turn_index = 0
  /\ initiative_order = <<"x", "y">>
  /\ max_rounds = 1
  /\ log = <<>>
  /\ rolled = NotRolled
  /\ last = NoAudit
  /\ pc = "call"
  /\ on_event = FALSE
  /\ sink = <<>>
  /\ planner = NoPlanner

\* events = rules.resolve_action(state, action)
CallResolve ==
  /\ pc = "call"
  /\ \E action \in ArenaActions :
       \E d \in DiceDraws(combatants, action) :
         LET out == resolve_action(combatants, action, d.a, d.b, d.r1, d.r2)
         IN  /\ combatants' = out.combatants
             /\ log' = out.events
             /\ last' = out.audit
             /\ pc' = IF out.audit.error = "none" THEN "returned" ELSE "raised"
  /\ UNCHANGED <<round_num, turn_index, initiative_order, max_rounds, rolled,
                 on_event, sink, planner>>

RulesNext == CallResolve

RulesSpec == RulesInit /\ [][RulesNext]_vars

----------------------------------------------------------------------------
(* Properties                                                              *)

Ids(cs) == {cs[i].id : i \in 1..Len(cs)}

LastEvent == log[Len(log)]

IsDuel == Len(combatants) = 2 /\ combatants[1].id = "a" /\ combatants[2].id = "b"

\* C1: for every combatant, after any sequence of resolved actions,
\* 0 <= hp <= max_hp.
C1_HpWithinBounds ==
  \A i \in 1..Len(combatants) :
    0 <= combatants[i].hp /\ combatants[i].hp <= combatants[i].max_hp

\* C2: when run has left its loop and emitted the final event, at most one
\* team has a living member or the round counter exceeds max_rounds; with two
\* or more teams alive the final event states no winner.
C2_ExitCondition ==
  pc = "done" =>
    /\ is_over(combatants) \/ round_num > max_rounds
    /\ LastEvent.type = "combat_end"
    /\ Cardinality(alive_teams(combatants)) >= 2 => LastEvent.note = "no_winner"

C2_Witness ==
  /\ pc = "done"
  /\ Cardinality(alive_teams(combatants)) >= 2
  /\ round_num > max_rounds
  /\ LastEvent.note = "no_winner"

\* C3: for every roster, max_rounds and choice of actions and dice, run
\* eventually emits the final event and returns.
C3_Terminates == <>(pc = "done")

C3_Witness ==
  /\ pc = "done"
  /\ round_num > max_rounds
  /\ \E i \in 1..Len(combatants) : ~alive(combatants[i])
  /\ LastEvent.type = "combat_end"

\* C4: in the duel of A (ac 10, 1 hp) against B (+99, 1d4), an attack B
\* resolves against the living A hits, leaves A at 0 hp and emits "down" for
\* A; the session then ends with the final event naming team B.
BStruckA ==
  IsDuel /\ last.type = "attack" /\ last.actor = "b" /\ ~last.noop

C4_DuelOutcome ==
  /\ [](BStruckA =>
          /\ last.hit
          /\ last.hp_before = 1 /\ last.hp_after = 0
          /\ combatants[1].hp = 0
          /\ \E k \in 1..Len(log) : log[k] = Event("down", "b", "a", "down", 0)
          /\ pc = "done" => LastEvent = Event("combat_end", NoId, NoId, "B", 0))
  /\ (BStruckA ~> (pc = "done" /\ LastEvent = Event("combat_end", NoId, NoId, "B", 0)))

C4_Witness ==
  /\ BStruckA
  /\ pc = "done"
  /\ last.adv_state = "dis"
  /\ LastEvent.note = "B"

\* C5: every heal resolved in an encounter leaves hp <= max_hp; with at least
\* one charge it takes exactly one charge; with 0 charges it changes neither
\* hp nor the charges.
C5_HealCharges ==
  (pc \in {"loop", "done"} /\ last.type = "heal" /\ ~last.noop) =>
    /\ last.hp_after <= combatants[get(combatants, last.actor)].max_hp
    /\ last.heals_before >= 1 => last.heals_after = last.heals_before - 1
    /\ last.heals_before <= 0 =>
         (last.hp_after = last.hp_before /\ last.heals_after = last.heals_before)

\* C6 (as claimed): after D resolves a defend, only the next attack against D
\* is rolled at disadvantage; a later attack before D's following turn is
\* rolled normally.
DefendActive(k, d) ==
  \E j \in 1..(k - 1) :
    /\ log[j].note = "flag_added" /\ log[j].actor = d
    /\ \A m \in (j + 1)..(k - 1) : ~(log[m].note = "round" /\ log[m].actor = d)

FirstSinceDefend(k, d) ==
  \E j \in 1..(k - 1) :
    /\ log[j].note = "flag_added" /\ log[j].actor = d
    /\ \A m \in (j + 1)..(k - 1) :
         /\ ~(log[m].note = "round" /\ log[m].actor = d)
         /\ ~(log[m].type = "attack_roll" /\ log[m].target = d)

AttackRolls == {k \in 1..Len(log) : log[k].type = "attack_roll"}

C6_OnlyNextAttack ==
  \A k \in AttackRolls :
    DefendActive(k, log[k].target) =>
      (log[k].note = "dis" <=> FirstSinceDefend(k, log[k].target))

\* C6 (amended): an attack against D is rolled at disadvantage exactly when D
\* resolved a defend on its latest turn: every attack between D's defend and
\* the start of D's following turn, the second and later ones included.
C6_UntilOwnNextTurn ==
  \A k \in AttackRolls :
    log[k].note = "dis" <=> DefendActive(k, log[k].target)

C6_Witness ==
  /\ Len(combatants) >= 3
  /\ \E k \in AttackRolls :
       /\ DefendActive(k, log[k].target)
       /\ ~FirstSinceDefend(k, log[k].target)
       /\ log[k].note = "dis"

\* C9: the order the session installs is sorted by roll total descending, ties
\* broken by dex modifier and then by name (larger first, as the total), and
\* is the same whatever order the combatants were passed in.
NamesSorted == <<"A", "Alpha", "B", "Beta", "Gamma", "Grik", "Hero", "Snag", "X", "Y">>

NameRank(name) == CHOOSE i \in 1..Len(NamesSorted) : NamesSorted[i] = name

KeyGreaterEq(x, y) ==
  \/ x.total > y.total
  \/ x.total = y.total /\ x.dex_mod > y.dex_mod
  \/ x.total = y.total /\ x.dex_mod = y.dex_mod /\ NameRank(x.name) >= NameRank(y.name)

Reordered(seq, p) == [i \in 1..Len(seq) |-> seq[p[i]]]

C9_InitiativeOrder ==
  pc = "rolled" =>
    /\ \A i \in 1..(Len(rolled.rolls) - 1) :
         KeyGreaterEq(rolled.rolls[i], rolled.rolls[i + 1])
    /\ \A p \in Permutations(1..Len(combatants)) :
         roll_initiative(Reordered(combatants, p), Reordered(rolled.d20s, p)).order
           = rolled.order

\* C10: once the session has installed the initiative, initiative_order holds
\* exactly the roster ids, each once, and never changes again.
C10_OrderIsRoster ==
  /\ [](pc \in {"loop", "done"} =>
          /\ Len(initiative_order) = Len(combatants)
          /\ {initiative_order[i] : i \in 1..Len(initiative_order)} = Ids(combatants)
          /\ Cardinality(Ids(combatants)) = Len(combatants))
  /\ [][(pc \in {"loop", "done"}) => (initiative_order' = initiative_order)]_vars

C10_Witness ==
  /\ pc = "loop"
  /\ round_num >= 2
  /\ \E i \in 1..Len(combatants) : ~alive(combatants[i])
  /\ Len(initiative_order) = 3

\* C7: for an attack that reaches the to-hit roll with chosen d20 r, bonus b
\* and target armor class ac: r = 20 hits; r # 20 with r + b < ac misses;
\* r + b >= ac hits.
ToHitRolled == pc = "returned" /\ last.type = "attack" /\ ~last.noop

C7_HitRule ==
  ToHitRolled =>
    /\ last.d20 = 20 => last.hit
    /\ (last.d20 # 20 /\ last.d20 + last.attack_bonus < last.target_ac) => ~last.hit
    /\ last.d20 + last.attack_bonus >= last.target_ac => last.hit

C7_Witness ==
  /\ ToHitRolled
  /\ last.d20 = 20
  /\ last.d20 + last.attack_bonus < last.target_ac
  /\ last.hit
  /\ combatants[2].hp < last.hp_before

\* C8: on a critical hit the damage is the sum of two rolls of the whole
\* damage expression, the modifier counted twice; on any other hit it is one
\* roll of the expression. That amount is what is taken from the target's hp.
C8_CritDamage ==
  (ToHitRolled /\ last.hit) =>
    LET n == parse_dice(combatants[1].attacks[1].damage_dice).num_dice
        one == SumSeq(last.dmg1) + last.modifier
        two == SumSeq(last.dmg2) + last.modifier
    IN  /\ Len(last.dmg1) = n
        /\ last.crit <=> last.d20 = 20
        /\ last.crit => (Len(last.dmg2) = n /\ last.amount = one + two)
        /\ ~last.crit => (Len(last.dmg2) = 0 /\ last.amount = one)
        /\ last.hp_after = Max(0, last.hp_before - last.amount)
        /\ combatants[2].hp = last.hp_after

C8_Witness ==
  /\ ToHitRolled
  /\ last.crit
  /\ last.modifier # 0
  /\ last.dmg1 # last.dmg2
  /\ last.amount = SumSeq(last.dmg1) + SumSeq(last.dmg2) + 2 * last.modifier

----------------------------------------------------------------------------
(* Controllers, sink, final event, round bound                             *)

\* C11: the action resolved on a living combatant's turn is the one its
\* registered controller returned; a combatant without a registered
\* controller resolves "wait".
C11_ControllerAction ==
  (last.type # "none" /\ last.actor \notin controllers) => last.type = "wait"

IsPrefix(s, t) == Len(s) <= Len(t) /\ SubSeq(t, 1, Len(s)) = s

\* C12: with a sink supplied, what the sink has received is at every point a
\* prefix of the log, in order, and equals the log when run has returned.
C12_SinkSeesLog ==
  on_event => (IsPrefix(sink, log) /\ (pc = "done" => sink = log))

C12_Witness ==
  /\ on_event
  /\ pc = "done"
  /\ Len(log) >= 5
  /\ sink = log

LivingTeams ==
  {combatants[i].team : i \in {j \in 1..Len(combatants) : combatants[j].hp > 0}}

TeamsOf(cs) == {cs[i].team : i \in 1..Len(cs)}

\* C13: the last event of the log is the final combat-end event; it names
\* team T exactly when T is the only team with a living member at loop exit,
\* and states no winner otherwise.
C13_FinalEvent ==
  pc = "done" =>
    /\ LastEvent.type = "combat_end"
    /\ LastEvent.actor = NoId /\ LastEvent.target = NoId
    /\ \A T \in TeamsOf(combatants) : (LastEvent.note = T) <=> (LivingTeams = {T})
    /\ (\A T \in TeamsOf(combatants) : LivingTeams # {T}) => LastEvent.note = "no_winner"

C13_Witness ==
  /\ pc = "done"
  /\ LivingTeams = {"party"}
  /\ LastEvent.note = "party"
  /\ \E i \in 1..Len(combatants) : combatants[i].hp = 0

TurnRounds == {log[k].num : k \in {j \in 1..Len(log) : log[j].type = "turn_start" /\ log[j].note = "round"}}

\* C14: with max_rounds = M turns are played in round M, no turn-start event
\* carries a round above M, and an undecided combat ends exactly when the
\* round counter becomes M + 1.
C14_RoundBoundInclusive ==
  /\ \A r \in TurnRounds : r <= max_rounds
  /\ pc = "loop" => round_num <= max_rounds + 1
  /\ (pc = "done" /\ ~is_over(combatants)) =>
       (round_num = max_rounds + 1 /\ max_rounds \in TurnRounds)

C14_Witness ==
  /\ pc = "done"
  /\ ~is_over(combatants)
  /\ max_rounds >= 2
  /\ max_rounds \in TurnRounds
  /\ round_num = max_rounds + 1

----------------------------------------------------------------------------
(* Attack pass-throughs                                                    *)

ArenaActor == combatants[get(combatants, last'.actor)]

ArenaTarget == combatants[get(combatants, last'.declared[1])]

\* C20: resolving an attack returns no events and changes no field of the
\* state when the actor is dead, the declaration has no target id, or the
\* first target is dead.
C20_SilentAttack ==
  [][(/\ pc = "call"
      /\ last'.type = "attack"
      /\ known(combatants, last'.actor)
      /\ \/ ~alive(ArenaActor)
         \/ last'.declared = <<>>
         \/ known(combatants, last'.declared[1]) /\ ~alive(ArenaTarget))
     => (/\ log' = <<>>
         /\ pc' = "returned"
         /\ UNCHANGED <<combatants, round_num, turn_index, initiative_order>>)]_vars

C20_Witness ==
  /\ pc = "returned"
  /\ last.type = "attack"
  /\ last.declared = <<"y">>
  /\ combatants[1].hp > 0
  /\ combatants[2].hp = 0
  /\ log = <<>>

----------------------------------------------------------------------------
(* engine/systems/actions/registry.py                                      *)

\* Variant: every combatant of another team is a target, down or not.
attack_declarations_any(cs, actor) ==
  LET targets == SelectSeq(cs, LAMBDA t : t.team # actor.team)
  IN  [k \in 1..Len(targets) |->
         ActionDeclaration(actor.id, "attack", <<targets[k].id>>, 0, NoDice)]

\* for t in state.combatants: if t.alive and t.team != actor.team: append
attack_declarations(cs, actor) ==
  LET targets == SelectSeq(cs, LAMBDA t : alive(t) /\ t.team # actor.team)
  IN  [k \in 1..Len(targets) |->
         ActionDeclaration(actor.id, "attack", <<targets[k].id>>, 0, NoDice)]

\* Variant: a charge is enough, full hit points or not.
heal_declarations_charged(actor) ==
  IF actor.heals_remaining > 0
  THEN <<ActionDeclaration(actor.id, "heal", <<actor.id>>, 0, actor.heal_dice)>>
  ELSE <<>>

\* if actor.heals_remaining > 0 and actor.hp < actor.max_hp: append heal
heal_declarations(actor) ==
  IF actor.heals_remaining > 0 /\ actor.hp < actor.max_hp
  THEN <<ActionDeclaration(actor.id, "heal", <<actor.id>>, 0, actor.heal_dice)>>
  ELSE <<>>

\* Variant: wait is appended before heal.
self_declarations_wait_first(actor) ==
  <<ActionDeclaration(actor.id, "defend", <<>>, 0, NoDice),
    ActionDeclaration(actor.id, "wait", <<>>, 0, NoDice)>>
  \o heal_declarations(actor)

\* The appends after the attack loop: defend, heal when legal, wait.
self_declarations(actor) ==
  <<ActionDeclaration(actor.id, "defend", <<>>, 0, NoDice)>>
  \o heal_declarations(actor)
  \o <<ActionDeclaration(actor.id, "wait", <<>>, 0, NoDice)>>

\* Variant: the actor is not checked for being alive.
list_actions_unguarded(cs, actor) ==
  attack_declarations(cs, actor) \o self_declarations(actor)

\* ActionRegistry.list_actions
list_actions(cs, actor) ==
  IF ~alive(actor) THEN <<>>
  ELSE attack_declarations(cs, actor) \o self_declarations(actor)

----------------------------------------------------------------------------
(* engine/systems/ai/policies.py                                           *)

\* Scores are floats in the code; here they are kept as integers, every
\* score multiplied by ScoreScale so that the 1.2 weight is exact.
ScoreScale == 5
EnemyWeight == 5
AllyWeight == 6
TerminalBonus == 50000

\* PlannerConfig.epsilon in hundredths; rng.random() likewise, in [0, 1).
DefaultEpsilon == 5
Epsilons == {0, DefaultEpsilon, 100}
RandomDraws == {0, 50, 99}

MaxRollouts == 2

_team_hp_sum(cs, team) ==
  SumSeq([k \in 1..Len(cs) |-> IF alive(cs[k]) /\ cs[k].team = team THEN cs[k].hp ELSE 0])

_enemy_hp_sum(cs, team) ==
  SumSeq([k \in 1..Len(cs) |-> IF alive(cs[k]) /\ cs[k].team # team THEN cs[k].hp ELSE 0])

\* Variant: the penalty is charged whenever the team has nobody alive after.
_evaluate_delta_harsh(before, after, team) ==
  LET enemy_damage == _enemy_hp_sum(before, team) - _enemy_hp_sum(after, team)
      ally_damage == _team_hp_sum(before, team) - _team_hp_sum(after, team)
      after_teams == alive_teams(after)
  IN  enemy_damage * EnemyWeight - ally_damage * AllyWeight
      + (IF team \in after_teams /\ Cardinality(after_teams) = 1 THEN TerminalBonus ELSE 0)
      - (IF team \notin after_teams THEN TerminalBonus ELSE 0)

_evaluate_delta(before, after, team) ==
  LET enemy_damage == _enemy_hp_sum(before, team) - _enemy_hp_sum(after, team)
      ally_damage == _team_hp_sum(before, team) - _team_hp_sum(after, team)
      before_teams == alive_teams(before)
      after_teams == alive_teams(after)
  IN  enemy_damage * EnemyWeight - ally_damage * AllyWeight
      + (IF team \in after_teams /\ Cardinality(after_teams) = 1 THEN TerminalBonus ELSE 0)
      - (IF team \notin after_teams /\ team \in before_teams THEN TerminalBonus ELSE 0)

\* Variant: the rules are applied to the state that was passed in.
_simulate_once_in_place(cs, action, d) ==
  LET after == resolve_action(cs, action, d.a, d.b, d.r1, d.r2).combatants
  IN  [live |-> after, after |-> after]

\* _simulate_once: the rules are applied to a deep copy; `live` is the state
\* that was passed in as the call leaves it, `after` the copy returned.
_simulate_once(cs, action, d) ==
  [live |-> cs, after |-> resolve_action(cs, action, d.a, d.b, d.r1, d.r2).combatants]

\* What one simulation of `action` can return, over the dice of its stream.
SimResults(cs, action) == {_simulate_once(cs, action, d) : d \in DiceDraws(cs, action)}

\* The sequences of n results drawn from S.
RECURSIVE Rollouts(_, _)
Rollouts(S, n) ==
  IF n = 0 THEN {<<>>} ELSE {Append(r, x) : r \in Rollouts(S, n - 1), x \in S}

\* The number of simulations _score_action runs for one action.
simulations_per_action(rollouts) == IF rollouts <= 0 THEN 1 ELSE rollouts

\* For every legal action, in order, the results of its simulations.
RECURSIVE Simulations(_, _, _)
Simulations(cs, legal, n) ==
  IF Len(legal) = 0 THEN {<<>>}
  ELSE {<<h>> \o t : h \in Rollouts(SimResults(cs, Head(legal)), n),
                     t \in Simulations(cs, Tail(legal), n)}

\* _score_action: the sum of the evaluations of the action's simulations.  The
\* code divides the sum by the rollout count, the same positive number for
\* every action of one decision, which leaves the comparison unchanged.
_score_action(cs, team, sims) ==
  SumSeq([k \in 1..Len(sims) |-> _evaluate_delta(cs, sims[k].after, team)])

\* Variant: a later action with an equal score replaces the best one.
RECURSIVE pick_best_last(_, _, _)
pick_best_last(scores, k, best) ==
  IF k > Len(scores) THEN best
  ELSE pick_best_last(scores, k + 1, IF best = 0 \/ scores[k] >= scores[best] THEN k ELSE best)

\* The loop `if score > best_score`: k is the next index, best the index of
\* best_action (0 while best_score is -inf).
RECURSIVE pick_best(_, _, _)
pick_best(scores, k, best) ==
  IF k > Len(scores) THEN best
  ELSE pick_best(scores, k + 1, IF best = 0 \/ scores[k] > scores[best] THEN k ELSE best)

explores(epsilon, u) == epsilon > 0 /\ u < epsilon

\* The state passed to choose_action once all simulations have returned: as
\* the last simulation that touched it left it.
live_state(cs, sims) ==
  LET touched == {p \in {<<i, j>> : i \in 1..Len(sims), j \in 1..MaxRollouts + 1} :
                    p[2] <= Len(sims[p[1]]) /\ sims[p[1]][p[2]].live # cs}
      final == CHOOSE p \in touched :
                 \A q \in touched : q[1] < p[1] \/ (q[1] = p[1] /\ q[2] <= p[2])
  IN  IF touched = {} THEN cs ELSE sims[final[1]][final[2]].live

\* Variant: an actor without legal actions defends.
no_legal_action_defend(actor) == ActionDeclaration(actor.id, "defend", <<>>, 0, NoDice)

\* if not legal: return ActionDeclaration(actor_id=actor.id, type="wait")
no_legal_action(actor) == ActionDeclaration(actor.id, "wait", <<>>, 0, NoDice)

\* Whether resolving `action` on cs reaches a dice roll.
rolls_dice(cs, action) ==
  DiceDraws(cs, action) # {[a |-> 1, b |-> 1, r1 |-> <<>>, r2 |-> <<>>]}

\* PlannerController.choose_action from the line after `legal = ...`: u is
\* rng.random(), pick the index rng.choice takes, sims the results of the
\* simulations.  Besides the action returned, the result tells what the call
\* did: the scores it compared (sums over the rollouts), the child-stream
\* seeds it drew with rng.randrange and the simulations that rolled dice.
choose_from(cs, actor_id, legal, config, u, pick, sims) ==
  LET actor == cs[get(cs, actor_id)]
      n == simulations_per_action(config.rollouts)
      scores == [k \in 1..Len(legal) |-> _score_action(cs, actor.team, sims[k])]
  IN  IF Len(legal) = 0
      THEN [legal |-> legal, live |-> cs,
            chosen |-> no_legal_action(actor),
            explored |-> FALSE, scores |-> <<>>, child_seeds |-> 0, dice_rolls |-> 0]
      ELSE IF explores(config.epsilon, u)
      THEN [legal |-> legal, live |-> cs, chosen |-> legal[pick],
            explored |-> TRUE, scores |-> <<>>, child_seeds |-> 0, dice_rolls |-> 0]
      ELSE [legal |-> legal, live |-> live_state(cs, sims),
            chosen |-> legal[pick_best(scores, 1, 0)],
            explored |-> FALSE, scores |-> scores,
            child_seeds |-> Len(legal) * n,
            dice_rolls |-> SumSeq([k \in 1..Len(legal) |->
                                     IF rolls_dice(cs, legal[k]) THEN n ELSE 0])]

\* PlannerController.choose_action with the repository's ActionRegistry.
choose_action(cs, actor_id, config, u, pick, sims) ==
  choose_from(cs, actor_id, list_actions(cs, cs[get(cs, actor_id)]), config, u, pick, sims)

\* The random inputs one choose_action call consumes on the list `legal`; an
\* input the call does not read is pinned.
DrawsFor(cs, legal, config) ==
  IF Len(legal) = 0 THEN {[u |-> 0, pick |-> 1, sims |-> <<>>]}
  ELSE UNION {
    IF explores(config.epsilon, u)
    THEN {[u |-> u, pick |-> p, sims |-> <<>>] : p \in 1..Len(legal)}
    ELSE {[u |-> u, pick |-> 1, sims |-> x] :
            x \in Simulations(cs, legal, simulations_per_action(config.rollouts))}
    : u \in (IF config.epsilon > 0 THEN RandomDraws ELSE {0})}

PlannerDraws(cs, actor_id, config) ==
  DrawsFor(cs, list_actions(cs, cs[get(cs, actor_id)]), config)

----------------------------------------------------------------------------
(* One controller decision on a three-combatant state: the registry, the   *)
(* planner or the session's built-in policy is asked once.                 *)

\* Two party members around one enemy, each up or down; the roster order is
\* not the order of the ids.
Camps ==
  {<<Combatant("z1", "Zed", "party", 12, 3, zhp, 10, <<Bite>>, heals, Notation(1, 8, 2)),
     [Combatant("e1", "Eel", "enemies", 12, 2, ehp, 10, <<Bite>>, 0, Notation(1, 8, 2))
        EXCEPT !.flags = flags],
     Combatant("a1", "Ann", "party", 12, 2, ahp, 10, <<Bite>>, 0, Notation(1, 8, 2))>> :
     zhp \in {0, 1, 3}, heals \in {0, 1}, ehp \in {0, 1, 2}, ahp \in {0, 2},
     flags \in {{}, {"defending"}}}

PlannerInit ==
  /\ combatants \in Camps
  /\ round_num = 1
  /\ turn_index = 0
  /\ initiative_order = <<"z1", "e1", "a1">>
  /\ max_rounds = 1
  /\ log = <<>>
  /\ rolled = NotRolled
  /\ last = NoAudit
  /\ pc = "ask"
  /\ on_event = FALSE
  /\ sink = <<>>
  /\ planner \in [actor : {"z1", "e1", "a1"}, epsilon : Epsilons, rollouts : 0..MaxRollouts,
                  legal : {<<>>}, chosen : {<<>>}]

\* legal = registry.list_actions(state, actor)
CallListActions ==
  /\ pc = "ask"
  /\ planner' = [planner EXCEPT
                   !.legal = list_actions(combatants, combatants[get(combatants, planner.actor)])]
  /\ pc' = "listed"
  /\ UNCHANGED <<combatants, round_num, turn_index, initiative_order, max_rounds, log, rolled,
                 last, on_event, sink>>

\* action = PlannerController(registry, config).choose_action(state, actor_id)
CallChooseAction ==
  /\ pc = "ask"
  /\ \E d \in PlannerDraws(combatants, planner.actor, planner) :
       LET out == choose_action(combatants, planner.actor, planner, d.u, d.pick, d.sims)
       IN  /\ planner' = [planner EXCEPT !.legal = out.legal, !.chosen = <<out.chosen>>]
           /\ combatants' = out.live
  /\ pc' = "chosen"
  /\ UNCHANGED <<round_num, turn_index, initiative_order, max_rounds, log, rolled,
                 last, on_event, sink>>

\* The session's own choice for a living actor: the prompt or the goblin
\* policy.
CallPolicy ==
  /\ pc = "ask"
  /\ LET actor == combatants[get(combatants, planner.actor)]
     IN  /\ alive(actor)
         /\ \E action \in declared_actions(combatants, actor) :
              planner' = [planner EXCEPT !.chosen = <<action>>]
  /\ pc' = "policy"
  /\ UNCHANGED <<combatants, round_num, turn_index, initiative_order, max_rounds, log, rolled,
                 last, on_event, sink>>

PlannerNext == CallListActions \/ CallChooseAction \/ CallPolicy

PlannerSpec == PlannerInit /\ [][PlannerNext]_vars

----------------------------------------------------------------------------
(* Properties of the registry and of choosing                              *)

Asked == combatants[get(combatants, planner.actor)]

Listed(type) == {k \in 1..Len(planner.legal) : planner.legal[k].type = type}

\* C15: list_actions returns the empty list whenever the actor is not alive.
C15_DeadActorNoActions ==
  (pc = "listed" /\ Asked.hp = 0) => planner.legal = <<>>

C15_Witness ==
  /\ pc = "listed"
  /\ Asked.hp = 0
  /\ \E i, j \in 1..Len(combatants) :
       combatants[i].hp > 0 /\ combatants[j].hp > 0 /\ combatants[i].team # combatants[j].team
  /\ planner.legal = <<>>

LegalTargets ==
  {combatants[i].id : i \in {j \in 1..Len(combatants) :
                               combatants[j].hp > 0 /\ combatants[j].team # Asked.team}}

\* C16: for a living actor the list holds exactly one attack declaration per
\* living combatant of another team and no other attack; each attack has
\* exactly one target id and attack_index 0.
C16_AttackDeclarations ==
  (pc = "listed" /\ Asked.hp > 0) =>
    /\ \A k \in Listed("attack") :
         /\ Len(planner.legal[k].target_ids) = 1
         /\ planner.legal[k].target_ids[1] \in LegalTargets
         /\ planner.legal[k].attack_index = 0
         /\ planner.legal[k].actor_id = planner.actor
    /\ \A t \in LegalTargets :
         Cardinality({k \in Listed("attack") : planner.legal[k].target_ids = <<t>>}) = 1

C16_Witness ==
  /\ pc = "listed"
  /\ planner.actor = "e1"
  /\ Asked.hp > 0
  /\ LegalTargets = {"a1"}
  /\ combatants[1].hp = 0
  /\ Cardinality(Listed("attack")) = 1

\* C17: for a living actor the list holds exactly one defend and one wait,
\* and exactly one heal when heals_remaining > 0 and hp < max_hp, none
\* otherwise.
C17_SelfDeclarations ==
  (pc = "listed" /\ Asked.hp > 0) =>
    /\ Cardinality(Listed("defend")) = 1
    /\ Cardinality(Listed("wait")) = 1
    /\ Cardinality(Listed("heal")) =
         (IF Asked.heals_remaining > 0 /\ Asked.hp < Asked.max_hp THEN 1 ELSE 0)

C17_Witness ==
  /\ pc = "listed"
  /\ Asked.heals_remaining > 0
  /\ Asked.hp = Asked.max_hp
  /\ Listed("heal") = {}
  /\ Cardinality(Listed("defend")) = 1

TypeRank(type) ==
  IF type = "attack" THEN 0 ELSE IF type = "defend" THEN 1 ELSE IF type = "heal" THEN 2 ELSE 3

\* C18: the list is ordered: attacks first, in roster order of their targets,
\* then defend, then heal if present, then wait; a second call on the same
\* state returns the same list.
C18_ListOrder ==
  pc = "listed" =>
    /\ \A i, j \in 1..Len(planner.legal) :
         i < j =>
           /\ TypeRank(planner.legal[i].type) <= TypeRank(planner.legal[j].type)
           /\ (planner.legal[i].type = "attack" /\ planner.legal[j].type = "attack") =>
                get(combatants, planner.legal[i].target_ids[1])
                  < get(combatants, planner.legal[j].target_ids[1])
    /\ planner.legal = list_actions(combatants, Asked)

C18_Witness ==
  /\ pc = "listed"
  /\ planner.actor = "e1"
  /\ Len(planner.legal) = 4
  /\ planner.legal[1].target_ids = <<"z1">>
  /\ planner.legal[2].target_ids = <<"a1">>
  /\ planner.legal[3].type = "defend"
  /\ planner.legal[4].type = "wait"

\* C19: choosing an action (list_actions, the planner's choose_action, the
\* session's built-in policy) leaves every combatant's hp, flags and
\* heals_remaining, the round number, the turn index and the initiative
\* order unchanged.
C19_ChoosingLeavesState ==
  [][pc = "ask" =>
       UNCHANGED <<combatants, round_num, turn_index, initiative_order>>]_vars

C19_Witness ==
  /\ pc = "chosen"
  /\ planner.epsilon = 0
  /\ planner.rollouts = 2
  /\ planner.chosen[1].type = "attack"
  /\ combatants[2].hp = 2
  /\ combatants[1].hp > 0

----------------------------------------------------------------------------
(* Errors and the shape of a resolved attack                               *)

\* C21: resolve_action with an action type outside attack, defend, heal and
\* wait fails with an unsupported-action error, returns no events and leaves
\* the combat state unchanged.
C21_UnsupportedAction ==
  [][(pc = "call" /\ last'.type \notin ActionTypes)
     => (/\ pc' = "raised"
         /\ last'.error = "unsupported_action"
         /\ log' = <<>>
         /\ UNCHANGED <<combatants, round_num, turn_index, initiative_order>>)]_vars

C21_Witness ==
  /\ pc = "raised"
  /\ last.type = "dance"
  /\ last.error = "unsupported_action"
  /\ combatants[1].hp > 0
  /\ log = <<>>

\* C25: a combatant is only ever built with positive max_hp and ac and with
\* well-formed dice expressions, so no configuration error first surfaces
\* while an action is being resolved.
C25_FailFast ==
  /\ \A i \in 1..Len(combatants) : combatants[i].ac > 0 /\ combatants[i].max_hp > 0
  /\ last.error # "invalid_dice"

\* C29: for an attack that is not a no-op the to-hit roll is made at
\* disadvantage exactly when the target carries "defending" at that moment,
\* and normally otherwise; never with advantage.
C29_AdvantageState ==
  [][(pc = "call" /\ last'.type = "attack" /\ ~last'.noop)
     => (/\ last'.adv_state \in {"normal", "dis"}
         /\ (last'.adv_state = "dis") <=> ("defending" \in ArenaTarget.flags))]_vars

C29_Witness ==
  /\ pc = "returned"
  /\ last.type = "attack"
  /\ ~last.noop
  /\ last.adv_state = "dis"
  /\ "defending" \in combatants[2].flags
  /\ last.hit

EventTypes(events) == [k \in 1..Len(events) |-> events[k].type]

ArenaTargetAfter == combatants'[get(combatants, last'.declared[1])]

\* C30: the events of a resolved attack come in a fixed order: on a miss the
\* sequence ends with "miss" and the state is unchanged; on a hit it is "hit",
\* then "damage" with the target's hp before and after the change, then
\* "down" exactly when the target's hp after the damage is 0.
C30_AttackEvents ==
  [][(pc = "call" /\ last'.type = "attack" /\ ~last'.noop /\ last'.error = "none")
     => IF ~last'.hit
        THEN /\ EventTypes(log') = <<"attack_roll", "miss">>
             /\ combatants' = combatants
        ELSE /\ EventTypes(log') =
                  <<"attack_roll", "hit", "damage">>
                  \o (IF ArenaTargetAfter.hp = 0 THEN <<"down">> ELSE <<>>)
             /\ last'.hp_before = ArenaTarget.hp
             /\ last'.hp_after = ArenaTargetAfter.hp
             /\ combatants' =
                  [combatants EXCEPT ![get(combatants, last'.declared[1])].hp = last'.hp_after]]_vars

C30_Witness ==
  /\ pc = "returned"
  /\ last.type = "attack"
  /\ EventTypes(log) = <<"attack_roll", "hit", "damage", "down">>
  /\ last.hp_before > 0
  /\ last.hp_after = 0
  /\ combatants[2].hp = 0

----------------------------------------------------------------------------
(* The defending flag, dead actors and the turn cursor in the session      *)

Flagged(cs, i) == "defending" \in cs[i].flags

OnTurn == current_turn_id(initiative_order, turn_index)

\* The step is a turn taken by a living actor: its turn-start event is the
\* first event the step appends.
TurnTakenBy(id) ==
  /\ pc = "loop" /\ pc' = "loop"
  /\ Len(log') > Len(log)
  /\ log'[Len(log) + 1] = turn_start_event([id |-> id], round_num)
  /\ OnTurn = id

\* C26: the "defending" flag of a living combatant D is removed at the start
\* of D's own next turn and at no other step; when D's action is asked for, D
\* does not carry the flag, so after a turn in which D did not defend D is
\* without it.
C26_FlagClearedOnOwnTurn ==
  [][\A i \in 1..Len(combatants) :
       /\ (Flagged(combatants, i) /\ ~Flagged(combatants', i))
            => (combatants[i].hp > 0 /\ TurnTakenBy(combatants[i].id))
       /\ (TurnTakenBy(combatants[i].id) /\ last'.type # "defend")
            => ~Flagged(combatants', i)]_vars

C26_Witness ==
  /\ pc = "loop"
  /\ \E i \in 1..Len(combatants) :
       /\ combatants[i].hp > 0
       /\ ~Flagged(combatants, i)
       /\ last.actor = combatants[i].id
       /\ last.type = "wait"
       /\ \E k, n \in 1..Len(log) :
            /\ k < n
            /\ log[k] = Event("turn_start", combatants[i].id, NoId, "flag_added", 0)
            /\ log[n].type = "turn_start" /\ log[n].note = "round"
            /\ log[n].actor = combatants[i].id

\* C27: when the combatant at the turn cursor is dead the session only
\* advances the turn pointer: no event, no action asked for or resolved, no
\* combatant field changed; every turn-start event names a combatant that was
\* alive when it was emitted.
C27_DeadActorSkipped ==
  [][/\ (pc = "loop" /\ loop_continues(combatants, round_num, max_rounds)
         /\ combatants[get(combatants, OnTurn)].hp = 0)
        => (/\ log' = log /\ sink' = sink /\ last' = last
            /\ combatants' = combatants
            /\ pc' = "loop"
            /\ <<turn_index', round_num'>> # <<turn_index, round_num>>)
     /\ \A k \in (Len(log) + 1)..Len(log') :
          (log'[k].type = "turn_start" /\ log'[k].note = "round")
            => combatants[get(combatants, log'[k].actor)].hp > 0]_vars

\* A dead combatant sits just before the cursor while the fight goes on: its
\* turn has been passed over.
C27_Witness ==
  /\ pc = "loop"
  /\ ~is_over(combatants)
  /\ \E p \in 1..Len(initiative_order) :
       /\ combatants[get(combatants, initiative_order[p])].hp = 0
       /\ turn_index = p % Len(initiative_order)
       /\ last.actor # initiative_order[p]

CursorInRange == 0 <= turn_index /\ turn_index < Len(initiative_order)

CursorStep ==
  (turn_index' # turn_index \/ round_num' # round_num) =>
    \/ /\ turn_index + 1 < Len(initiative_order)
       /\ turn_index' = turn_index + 1
       /\ round_num' = round_num
    \/ /\ turn_index + 1 = Len(initiative_order)
       /\ turn_index' = 0
       /\ round_num' = round_num + 1

\* C28: in every reachable session state 0 <= turn_index <
\* len(initiative_order) and round_num >= 1; advancing moves the cursor to the
\* next index and round_num grows by one exactly when the cursor wraps to 0.
C28_CursorInRange ==
  /\ [](CursorInRange /\ round_num >= 1)
  /\ [][CursorStep]_vars

\* C28, restated: the cursor is within the order in every state in which a
\* non-empty initiative order is installed; the rest as above.
C28_CursorInInstalledOrder ==
  /\ []((initiative_order # <<>> => CursorInRange) /\ round_num >= 1)
  /\ []((pc \in {"loop", "done"} /\ combatants # <<>>) => initiative_order # <<>>)
  /\ [][CursorStep]_vars

C28_Witness ==
  /\ pc = "loop"
  /\ Len(initiative_order) >= 2
  /\ turn_index = 0
  /\ round_num = 2
  /\ \E k \in 1..Len(log) : log[k].type = "turn_start" /\ log[k].note = "round"

----------------------------------------------------------------------------
(* Repeated decisions of one planner on one state                          *)

NoSeed == "None"

MaxDecisions == 2

\* The registry handed to PlannerController: the repository's ActionRegistry,
\* or one that offers only the first of its actions.
Registries == {"ActionRegistry", "FirstOnly"}

registry_list_actions(registry, cs, actor) ==
  LET all == list_actions(cs, actor)
  IN  IF registry = "ActionRegistry" \/ Len(all) = 0 THEN all ELSE SubSeq(all, 1, 1)

\* Variant: the generator is kept between the calls, so every call reads
\* fresh draws.
rng_draws_continued(config, draws) == draws

\* rng = random.Random(self.config.seed), made anew in every call: with a
\* seed every call reads the seed's stream from its start, so on the same
\* state and list it reads the draws the first call read (kept in `stream`);
\* without a seed every call reads fresh draws.
rng_draws(config, draws) ==
  IF config.seed # NoSeed /\ config.stream # <<>> THEN {config.stream[1]} ELSE draws

\* The positions rng.choice can take in a list of the registry.
LegalIndexes == 1..4

DecisionCamps ==
  {<<Combatant("z1", "Zed", "party", 12, 3, zhp, 10, <<Bite>>, heals, Notation(1, 8, 2)),
     Combatant("e1", "Eel", "enemies", 12, 2, ehp, 10, <<Bite>>, 0, Notation(1, 8, 2)),
     Combatant("a1", "Ann", "party", 12, 2, ahp, 10, <<Bite>>, 0, Notation(1, 8, 2))>> :
     zhp \in {1, 3}, heals \in {0, 1}, ehp \in {0, 2}, ahp \in {0, 2}}

DecisionInitWith(epsilons, seeds) ==
  /\ combatants \in DecisionCamps
  /\ round_num = 1
  /\ turn_index = 0
  /\ initiative_order = <<"z1", "e1", "a1">>
  /\ max_rounds = 1
  /\ log = <<>>
  /\ rolled = NotRolled
  /\ last = NoAudit
  /\ pc = "ask"
  /\ on_event = FALSE
  /\ sink = <<>>
  /\ planner \in [actor : {"z1", "e1"}, epsilon : epsilons, rollouts : {0, 2},
                  seed : seeds, registry : Registries,
                  legal : {<<>>}, chosen : {<<>>}, explored : {FALSE}, scores : {<<>>},
                  child_seeds : {0}, dice_rolls : {0},
                  decisions : {0}, returned : {{}}, stream : {<<>>}]

DecisionInit == DecisionInitWith(Epsilons, {NoSeed, "7"})

\* controller.choose_action(state, actor_id), with rng.choice taking position
\* p when the call explores.  A controller that has a seed or always
\* explores is asked again and again on the same state, any other once.
Decide(p) ==
  /\ pc = "ask" \/ (pc = "decided" /\ (planner.epsilon = 100 \/ planner.seed # NoSeed))
  /\ LET legal == registry_list_actions(planner.registry, combatants,
                                        combatants[get(combatants, planner.actor)])
     IN  \E d \in rng_draws(planner, DrawsFor(combatants, legal, planner)) :
           /\ d.pick = p
           /\ LET out == choose_from(combatants, planner.actor, legal, planner,
                                     d.u, d.pick, d.sims)
              IN  /\ planner' = [planner EXCEPT
                       !.legal = out.legal, !.chosen = <<out.chosen>>,
                       !.explored = out.explored, !.scores = out.scores,
                       !.child_seeds = out.child_seeds, !.dice_rolls = out.dice_rolls,
                       !.decisions = Min(planner.decisions + 1, MaxDecisions),
                       !.returned = planner.returned \cup {out.chosen},
                       !.stream = IF planner.seed # NoSeed THEN <<d>> ELSE <<>>]
                  /\ combatants' = out.live
  /\ pc' = "decided"
  /\ UNCHANGED <<round_num, turn_index, initiative_order, max_rounds, log, rolled,
                 last, on_event, sink>>

DecisionNext == \E p \in LegalIndexes : Decide(p)

DecisionSpec == DecisionInit /\ [][DecisionNext]_vars

\* Planners that always explore; rng.choice is uniform, so in an unending
\* series of calls that read fresh draws every position is taken.
ExploreInit == DecisionInitWith({100}, {NoSeed, "7"})

ExploreSpec ==
  ExploreInit /\ [][DecisionNext]_vars /\ \A p \in LegalIndexes : WF_vars(Decide(p))

Legal == {planner.legal[k] : k \in 1..Len(planner.legal)}

\* C22: with epsilon = 1.0 the planner returns a member of the legal-action
\* set and simulates no rollout; across the repeated decisions of one seeded
\* controller on the same state every legal action is returned in some
\* decision.
C22_EveryLegalActionReturned ==
  /\ []((pc = "decided" /\ planner.epsilon = 100 /\ Asked.hp > 0)
          => (/\ planner.chosen[1] \in Legal
              /\ planner.child_seeds = 0 /\ planner.scores = <<>>))
  /\ (pc = "decided" /\ planner.epsilon = 100 /\ planner.seed # NoSeed /\ Asked.hp > 0)
       ~> (planner.returned = Legal)

C24_FirstMaximalScore ==
  (pc = "decided" /\ ~planner.explored /\ planner.legal # <<>>) =>
    \E k \in 1..Len(planner.legal) :
      /\ planner.chosen = <<planner.legal[k]>>
      /\ \A j \in 1..Len(planner.legal) :
           /\ planner.scores[j] <= planner.scores[k]
           /\ j < k => planner.scores[j] < planner.scores[k]

\* Two attacks tie at the best score and the first is returned.
C24_Witness ==
  /\ pc = "decided"
  /\ ~planner.explored
  /\ planner.rollouts = 2
  /\ Len(planner.legal) = 4
  /\ planner.chosen = <<planner.legal[1]>>
  /\ planner.scores[1] > 0
  /\ planner.scores[2] = planner.scores[1]

----------------------------------------------------------------------------
(* Defend and wait on their own                                            *)

\* C31: "defend" by a living actor adds "defending" to that actor's flags,
\* changes nothing else and emits exactly one event; "wait" by a living actor
\* changes no state and emits exactly one event; both change nothing and emit
\* nothing when the actor is dead; neither changes any hp, any
\* heals_remaining, the turn index or the round number.
C31_DefendWaitFrame ==
  [][(pc = "call" /\ last'.type \in {"defend", "wait"} /\ known(combatants, last'.actor))
       => LET i == get(combatants, last'.actor)
          IN  /\ UNCHANGED <<round_num, turn_index, initiative_order>>
              /\ \A k \in 1..Len(combatants) :
                   /\ combatants'[k].hp = combatants[k].hp
                   /\ combatants'[k].heals_remaining = combatants[k].heals_remaining
              /\ IF combatants[i].hp = 0
                 THEN combatants' = combatants /\ log' = <<>>
                 ELSE /\ Len(log') = 1
                      /\ log'[1].type = "turn_start" /\ log'[1].actor = last'.actor
                      /\ combatants' =
                           IF last'.type = "defend"
                           THEN [combatants EXCEPT ![i].flags = @ \cup {"defending"}]
                           ELSE combatants]_vars

C31_Witness ==
  /\ pc = "returned"
  /\ last.type = "defend"
  /\ ~last.noop
  /\ "defending" \in combatants[get(combatants, last.actor)].flags
  /\ "defending" \in combatants[2].flags
  /\ Len(log) = 1

----------------------------------------------------------------------------
(* _evaluate_delta on its own: one call on a pair of states                *)

\* Three combatants on two teams with any hit points.
EvaluatedStates ==
  {<<Combatant("z1", "Zed", "party", 12, 3, zhp, 10, <<Bite>>, 0, Notation(1, 8, 2)),
     Combatant("e1", "Eel", "enemies", 12, 2, ehp, 10, <<Bite>>, 0, Notation(1, 8, 2)),
     Combatant("a1", "Ann", "party", 12, 2, ahp, 10, <<Bite>>, 0, Notation(1, 8, 2))>> :
     zhp \in {0, 1, 3}, ehp \in {0, 1, 2}, ahp \in {0, 2}}

EvaluateInit ==
  /\ combatants \in EvaluatedStates
  /\ round_num = 1
  /\ turn_index = 0
  /\ initiative_order = <<"z1", "e1", "a1">>
  /\ max_rounds = 1
  /\ log = <<>>
  /\ rolled = NotRolled
  /\ last = NoAudit
  /\ pc = "ask"
  /\ on_event = FALSE
  /\ sink = <<>>
  /\ planner \in [team : {"party", "enemies"}, after : EvaluatedStates, score : {0}]

\* score = _evaluate_delta(state, after, team)
CallEvaluate ==
  /\ pc = "ask"
  /\ planner' = [planner EXCEPT !.score = _evaluate_delta(combatants, planner.after, planner.team)]
  /\ pc' = "scored"
  /\ UNCHANGED <<combatants, round_num, turn_index, initiative_order, max_rounds, log, rolled,
                 last, on_event, sink>>

EvaluateNext == CallEvaluate

EvaluateSpec == EvaluateInit /\ [][EvaluateNext]_vars

\* Hit points held by the members of `team` (own) or of the other teams.
HpHeld(cs, team, own) ==
  SumSeq([k \in 1..Len(cs) |-> IF (cs[k].team = team) = own THEN cs[k].hp ELSE 0])

HasLiving(cs, team) == \E k \in 1..Len(cs) : cs[k].team = team /\ cs[k].hp > 0

OnlyLiving(cs, team) ==
  HasLiving(cs, team) /\ \A k \in 1..Len(cs) : cs[k].hp > 0 => cs[k].team = team

\* C32: the score of one simulated action for team T is (opponents' hp before
\* - after) - 1.2 x (T's hp before - after), plus 10000 if T is the only team
\* with a living member after, minus 10000 if T had a living member before and
\* has none after; the bonuses never both apply (scores are held times 5).
C32_ScoreFormula ==
  pc = "scored" =>
    LET T == planner.team
        won == OnlyLiving(planner.after, T)
        lost == HasLiving(combatants, T) /\ ~HasLiving(planner.after, T)
    IN  /\ ~(won /\ lost)
        /\ planner.score =
             ScoreScale * (HpHeld(combatants, T, FALSE) - HpHeld(planner.after, T, FALSE))
             - AllyWeight * (HpHeld(combatants, T, TRUE) - HpHeld(planner.after, T, TRUE))
             + (IF won THEN ScoreScale * 10000 ELSE 0)
             - (IF lost THEN ScoreScale * 10000 ELSE 0)

\* The party is wiped out while the enemy loses a hit point.
C32_Witness ==
  /\ pc = "scored"
  /\ planner.team = "party"
  /\ HasLiving(combatants, "party")
  /\ ~HasLiving(planner.after, "party")
  /\ HpHeld(combatants, "party", FALSE) - HpHeld(planner.after, "party", FALSE) = 1
  /\ planner.score < 0 - TerminalBonus

----------------------------------------------------------------------------
(* The random streams of the rollouts                                      *)

\* A stream is a tape of raw outputs read from an offset on; the tape is read
\* round when it runs out.
read(tape, idx) == tape[((idx - 1) % Len(tape)) + 1]

\* Dice.roll_die: self._rng.randint(1, sides) on the stream's next output.
roll_die(raw, sides) == (raw % sides) + 1

\* [self.roll_die(sides) for _ in range(num_dice)], reading from the
\* stream's output number `from`.
stream_dice(s, from, num_dice, sides) ==
  [i \in 1..num_dice |-> roll_die(read(s.tape, s.offset + from + i - 1), sides)]

\* The dice one resolve_action call reads from the stream s, in the order of
\* the calls in _resolve_attack and _resolve_heal, and how many it used.
stream_draws(cs, action, s) ==
  LET none == [a |-> 1, b |-> 1, r1 |-> <<>>, r2 |-> <<>>, used |-> 0]
      actor == cs[get(cs, action.actor_id)]
  IN  IF ~alive(actor) THEN none
      ELSE IF action.type = "heal"
      THEN LET expr == parse_dice(heal_dice_of(action))
           IN  [a |-> 1, b |-> 1, r1 |-> stream_dice(s, 1, expr.num_dice, expr.sides),
                r2 |-> <<>>, used |-> expr.num_dice]
      ELSE IF action.type # "attack" \/ Len(action.target_ids) = 0 THEN none
      ELSE
        LET defender == cs[get(cs, action.target_ids[1])]
            atk == choose_attack(actor, action.attack_index)
            expr == parse_dice(atk.damage_dice)
            dis == adv_state_for(defender) = "dis"
            nd == IF dis THEN 2 ELSE 1
            a == stream_dice(s, 1, 1, D20Sides)[1]
            b == IF dis THEN stream_dice(s, 2, 1, D20Sides)[1] ELSE a
            d20 == d20_with_adv_state(adv_state_for(defender), a, b)
        IN  IF ~alive(defender) THEN none
            ELSE IF ~attack_hits(d20, atk.attack_bonus, defender.ac)
            THEN [a |-> a, b |-> b, r1 |-> <<>>, r2 |-> <<>>, used |-> nd]
            ELSE IF is_crit(d20)
            THEN [a |-> a, b |-> b,
                  r1 |-> stream_dice(s, nd + 1, expr.num_dice, expr.sides),
                  r2 |-> stream_dice(s, nd + 1 + expr.num_dice, expr.num_dice, expr.sides),
                  used |-> nd + 2 * expr.num_dice]
            ELSE [a |-> a, b |-> b,
                  r1 |-> stream_dice(s, nd + 1, expr.num_dice, expr.sides),
                  r2 |-> <<>>, used |-> nd + expr.num_dice]

\* Variant: every simulation goes on reading the one stream where the
\* simulation before it stopped.
stream_for_shared(streams, position, consumed) ==
  [tape |-> streams[1], offset |-> consumed]

\* Dice(rng=random.Random(rng.randrange(1_000_000_000))): the simulation at
\* `position` reads, from its start, the stream seeded by the parent's output
\* number `position`; streams[position] is that stream.
stream_for(streams, position, consumed) ==
  [tape |-> read(streams, position), offset |-> 0]

\* The simulations of one decision in the order the loops of choose_action
\* and _score_action run them: n for each legal action.
RECURSIVE stream_sims(_, _, _, _, _, _)
stream_sims(cs, legal, n, streams, position, consumed) ==
  IF position > Len(legal) * n THEN <<>>
  ELSE LET action == legal[((position - 1) \div n) + 1]
           d == stream_draws(cs, action, stream_for(streams, position, consumed))
       IN  <<_simulate_once(cs, action, d)>>
             \o stream_sims(cs, legal, n, streams, position + 1, consumed + d.used)

\* The scores choose_action compares when the seed yields `streams`.
stream_scores(cs, team, legal, n, streams) ==
  LET sims == stream_sims(cs, legal, n, streams, 1, 0)
  IN  [simulated |-> Len(sims),
       scores |-> [k \in 1..Len(legal) |->
                     _score_action(cs, team, SubSeq(sims, (k - 1) * n + 1, k * n))]]

StreamTapes == {<<9, 8, 0, 19>>, <<0, 9, 19, 8>>, <<19, 7, 9, 0>>}

StreamCamps ==
  {<<[Combatant("z1", "Zed", "party", 12, 3, zhp, 10, <<Bite>>, 0, Notation(1, 8, 2))
        EXCEPT !.flags = flags],
     Combatant("e1", "Eel", "enemies", 12, 2, 2, 10, <<Bite>>, 0, Notation(1, 8, 2)),
     Combatant("a1", "Ann", "party", 12, 2, ahp, 10, <<Bite>>, 0, Notation(1, 8, 2))>> :
     zhp \in {1, 3}, ahp \in {0, 2}, flags \in {{}, {"defending"}}}

StreamInit ==
  /\ combatants \in StreamCamps
  /\ round_num = 1
  /\ turn_index = 0
  /\ initiative_order = <<"z1", "e1", "a1">>
  /\ max_rounds = 1
  /\ log = <<>>
  /\ rolled = NotRolled
  /\ last = NoAudit
  /\ pc = "ask"
  /\ on_event = FALSE
  /\ sink = <<>>
  /\ planner \in [actor : {"e1"}, epsilon : {0}, rollouts : {0, 2},
                  streams : [1..4 -> StreamTapes], varied : {"z1", "a1"},
                  legal : {<<>>}, simulated : {0}, scores : {<<>>}, other_scores : {<<>>}]

\* The state with the "defending" flag of combatant id switched.
other_stance(cs, id) ==
  [cs EXCEPT ![get(cs, id)].flags =
     IF "defending" \in @ THEN @ \ {"defending"} ELSE @ \cup {"defending"}]

\* Two controllers with the same seed score the same actor's actions, one on
\* the state, one on the state with another combatant's stance switched.
ScoreTwice ==
  /\ pc = "ask"
  /\ LET actor == combatants[get(combatants, planner.actor)]
         legal == list_actions(combatants, actor)
         n == simulations_per_action(planner.rollouts)
         here == stream_scores(combatants, actor.team, legal, n, planner.streams)
         other == other_stance(combatants, planner.varied)
         there == stream_scores(other, actor.team, list_actions(other, actor), n,
                                planner.streams)
     IN  planner' = [planner EXCEPT !.legal = legal, !.simulated = here.simulated,
                                    !.scores = here.scores, !.other_scores = there.scores]
  /\ pc' = "compared"
  /\ UNCHANGED <<combatants, round_num, turn_index, initiative_order, max_rounds, log, rolled,
                 last, on_event, sink>>

StreamNext == ScoreTwice

StreamSpec == StreamInit /\ [][StreamNext]_vars

\* C33: a planner that does not explore runs max(rollouts, 1) simulations for
\* each legal action; the stream of a rollout depends only on the seed and
\* the rollout's position, so a change in what the simulation of one action
\* rolls leaves the score of every other action as it was.
C33_RolloutStreamsIndependent ==
  pc = "compared" =>
    /\ planner.simulated = Len(planner.legal) * Max(planner.rollouts, 1)
    /\ Len(planner.other_scores) = Len(planner.scores)
    /\ \A k \in 1..Len(planner.legal) :
         planner.legal[k].target_ids # <<planner.varied>>
           => planner.other_scores[k] = planner.scores[k]

\* The attack on the combatant whose stance differs scores differently, the
\* attack after it scores the same.
C33_Witness ==
  /\ pc = "compared"
  /\ planner.rollouts = 2
  /\ planner.varied = "z1"
  /\ Len(planner.legal) = 4
  /\ planner.scores[1] # planner.other_scores[1]
  /\ planner.scores[2] > 0
  /\ planner.scores[2] = planner.other_scores[2]

----------------------------------------------------------------------------
(* What the planner may return                                             *)

\* C34: choose_action returns a member of list_actions(state, actor) or, when
\* that list is empty (dead actor), a "wait" declaration for the actor; never
\* an action for another actor or an attack on a dead or same-team target.
C34_ReturnsLegalAction ==
  pc = "chosen" =>
    LET c == planner.chosen[1]
        legal == list_actions(combatants, Asked)
    IN  /\ c.actor_id = planner.actor
        /\ IF Asked.hp = 0
           THEN legal = <<>> /\ c.type = "wait" /\ c.target_ids = <<>>
           ELSE \E k \in 1..Len(legal) : legal[k] = c
        /\ c.type = "attack" =>
             /\ Len(c.target_ids) = 1
             /\ combatants[get(combatants, c.target_ids[1])].hp > 0
             /\ combatants[get(combatants, c.target_ids[1])].team # Asked.team

\* The planner attacks the living one of two opponents.
C34_Witness ==
  /\ pc = "chosen"
  /\ planner.actor = "e1"
  /\ Asked.hp > 0
  /\ combatants[1].hp = 0
  /\ planner.chosen[1].type = "attack"
  /\ planner.chosen[1].target_ids = <<"a1">>

----------------------------------------------------------------------------
(* engine/systems/combat/resolution.py: the second RulesEngine, side by    *)
(* side with the RulesEngine of engine/rules.py                            *)

\* The names of the rosters in the order Python compares strings.
NameOrder ==
  <<"A", "Alpha", "Ann", "B", "Beta", "Eel", "Gamma", "Grik", "Hero", "Snag", "X", "Y", "Zed">>

\* rolls.sort(key=lambda x: (x[0], x[1], x[3]), reverse=True): x goes before
\* y when its key (total, dex_mod, name) is larger.
resolution_sorts_before(x, y) ==
  LET rank(name) == CHOOSE k \in 1..Len(NameOrder) : NameOrder[k] = name
  IN  \/ x.total > y.total
      \/ x.total = y.total /\ x.dex_mod > y.dex_mod
      \/ x.total = y.total /\ x.dex_mod = y.dex_mod /\ rank(x.name) > rank(y.name)

\* roll_initiative of resolution.py: the same rolls and events, sorted by the
\* longer key (the sort is stable where the keys are equal).
resolution_roll_initiative(cs, d20s) ==
  LET rs == initiative_rolls(cs, d20s)
      place(i) == 1 + Cardinality({j \in 1..Len(rs) :
                                     \/ resolution_sorts_before(rs[j], rs[i])
                                     \/ (~resolution_sorts_before(rs[i], rs[j]) /\ j < i)})
      sorted == [p \in 1..Len(rs) |-> rs[CHOOSE i \in 1..Len(rs) : place(i) = p]]
  IN  [d20s   |-> d20s,
       rolls  |-> sorted,
       order  |-> [i \in 1..Len(sorted) |-> sorted[i].id],
       events |-> [i \in 1..Len(cs) |-> Event("initiative", cs[i].id, NoId, "roll", 0)]]

\* _resolve_heal of resolution.py: refused without a charge; the dice default
\* to the actor's heal_dice; a heal spends a charge.
resolution_resolve_heal(cs, action, r1) ==
  LET i == get(cs, action.actor_id)
      actor == cs[i]
      heal_dice == IF action.heal_dice # NoDice THEN action.heal_dice ELSE actor.heal_dice
      healed == roll(heal_dice, r1)
      hp2 == hp_after_heal(actor.hp, actor.max_hp, healed.total)
      audit == [NoAudit EXCEPT !.type = "heal", !.actor = actor.id,
                               !.hp_before = actor.hp, !.hp_after = actor.hp,
                               !.heals_before = actor.heals_remaining,
                               !.heals_after = actor.heals_remaining]
  IN  IF ~known(cs, action.actor_id)
      THEN raised(cs, <<>>, lookup_audit(action), "unknown_id")
      ELSE IF ~alive(actor) THEN Outcome(cs, <<>>, [NoAudit EXCEPT !.type = "heal", !.actor = actor.id])
      ELSE IF actor.heals_remaining <= 0
      THEN Outcome(cs, <<Event("turn_start", actor.id, NoId, "no_heals", 0)>>,
                   [audit EXCEPT !.noop = FALSE])
      ELSE IF roll_raises(heal_dice)
      THEN Outcome(cs, <<>>, [audit EXCEPT !.noop = FALSE, !.error = "invalid_dice"])
      ELSE Outcome([cs EXCEPT ![i].hp = hp2, ![i].heals_remaining = @ - 1],
                   <<Event("damage", actor.id, NoId, "heal", 0)>>,
                   [audit EXCEPT !.noop = FALSE, !.dmg1 = r1, !.modifier = healed.modifier,
                                 !.amount = healed.total, !.hp_after = hp2,
                                 !.heals_after = actor.heals_remaining - 1])

\* resolve_action of resolution.py: `match action.type`; attack, defend and
\* wait read as in engine/rules.py.
resolution_resolve_action(cs, action, a, b, r1, r2) ==
  IF action.type = "attack" THEN _resolve_attack(cs, action, a, b, r1, r2)
  ELSE IF action.type = "defend" THEN _resolve_defend(cs, action)
  ELSE IF action.type = "heal" THEN resolution_resolve_heal(cs, action, r1)
  ELSE IF action.type = "wait" THEN _resolve_wait(cs, action)
  ELSE Outcome(cs, <<>>, [NoAudit EXCEPT !.type = action.type, !.actor = action.actor_id,
                                         !.declared = action.target_ids,
                                         !.error = "unsupported_action"])

\* A healer "x" with or without a charge and a target "y" of either
\* dexterity.
TwinArenas ==
  {<<Combatant("x", "X", "x", 12, MaxHp, xhp, 10, <<Bite>>, heals, Notation(1, 8, 2)),
     [Combatant("y", "Y", "y", 12, 2, yhp, ydex, <<Claw>>, 0, Notation(1, 8, 2))
        EXCEPT !.flags = flags]>> :
     xhp \in {0, 1, MaxHp}, heals \in {0, 1}, yhp \in {0, 2}, ydex \in {10, 12},
     flags \in {{}, {"defending"}}}

TwinInit ==
  /\ combatants \in TwinArenas
  /\ round_num = 1
  /\ turn_index = 0
  /\ initiative_order = <<>>
  /\ max_rounds = 1
  /\ log = <<>>
  /\ rolled = NotRolled
  /\ last = NoAudit
  /\ pc = "call"
  /\ on_event = FALSE
  /\ sink = <<>>
  /\ planner = [combatants |-> combatants, events |-> <<>>, order |-> <<>>]

\* One action and one sequence of die results, resolved by the RulesEngine
\* of engine/rules.py on the state and by the RulesEngine of resolution.py on
\* a copy of it.
ResolveTwice ==
  /\ pc = "call"
  /\ \E action \in ArenaActions :
       \E d \in DiceDraws(combatants, action) :
         LET out == resolve_action(combatants, action, d.a, d.b, d.r1, d.r2)
             twin == resolution_resolve_action(combatants, action, d.a, d.b, d.r1, d.r2)
         IN  /\ combatants' = out.combatants
             /\ log' = out.events
             /\ last' = out.audit
             /\ planner' = [planner EXCEPT !.combatants = twin.combatants,
                                           !.events = twin.events]
  /\ pc' = "resolved"
  /\ UNCHANGED <<round_num, turn_index, initiative_order, max_rounds, rolled, on_event, sink>>

\* One sequence of d20 results, ordered by both engines.
RollTwice ==
  /\ pc = "call"
  /\ \E d20s \in [1..Len(combatants) -> {10, 11}] :
       /\ rolled' = roll_initiative(combatants, d20s)
       /\ initiative_order' = roll_initiative(combatants, d20s).order
       /\ planner' = [planner EXCEPT
                        !.order = resolution_roll_initiative(combatants, d20s).order]
  /\ pc' = "ordered"
  /\ UNCHANGED <<combatants, round_num, turn_index, max_rounds, log, last, on_event, sink>>

TwinNext == ResolveTwice \/ RollTwice

TwinSpec == TwinInit /\ [][TwinNext]_vars

\* C35: for every state, action and sequence of die results the RulesEngine
\* of resolution.py and the RulesEngine of engine/rules.py produce the same
\* resulting state and the same events, and the same initiative order.
C35_EnginesAgree ==
  /\ pc = "resolved" => (planner.combatants = combatants /\ planner.events = log)
  /\ pc = "ordered" => planner.order = initiative_order

----------------------------------------------------------------------------
(* The session's declarations against the registry                         *)

\* C36: every action the session resolves on a combatant's turn is a member
\* of list_actions for that combatant in the current state: no heal for an
\* actor with 0 charges or at full hp, no attack without a living enemy
\* target.
C36_ResolvedActionsLegal ==
  [][\A i \in 1..Len(combatants) :
       TurnTakenBy(combatants[i].id) =>
         LET legal == list_actions(combatants, combatants[i])
         IN  \E k \in 1..Len(legal) :
               /\ legal[k].type = last'.type
               /\ last'.type = "attack" => legal[k].target_ids = last'.declared]_vars

----------------------------------------------------------------------------
(* Death within an encounter                                               *)

\* C37: once a combatant's hp is 0 no resolved action raises it again; the
\* set of living teams never grows, and once is_over() is true it stays true.
C37_DeathIsPermanent ==
  [][/\ \A i \in 1..Len(combatants) : combatants[i].hp = 0 => combatants'[i].hp = 0
     /\ alive_teams(combatants') \subseteq alive_teams(combatants)
     /\ is_over(combatants) => is_over(combatants')]_vars

\* A dead combatant's heal has been resolved and the combatant is still down.
C37_Witness ==
  /\ pc = "returned"
  /\ last.type = "heal"
  /\ last.actor = "x"
  /\ combatants[1].hp = 0
  /\ combatants[2].hp > 0
  /\ alive_teams(combatants) = {"y"}

----------------------------------------------------------------------------
(* The end-of-combat event                                                 *)

\* C38: the session log holds exactly one event of type "combat_end", the
\* last event of the log; every event before it has another type.
C38_SingleCombatEnd ==
  /\ pc = "done" => LastEvent.type = "combat_end"
  /\ \A k \in 1..Len(log) :
       log[k].type = "combat_end" => (pc = "done" /\ k = Len(log))

----------------------------------------------------------------------------
(* Decisions under a fixed seed                                            *)

\* C39: with a fixed seed, choose_action calls with the same configuration
\* on equal states for the same actor return the same action, however many
\* decisions were made before.
C39_SeededDecisionsAgree ==
  planner.seed # NoSeed =>
    /\ Cardinality(planner.returned) <= 1
    /\ pc = "decided" => planner.returned = {planner.chosen[1]}

\* A seeded planner that scores rollouts has decided again and returned the
\* attack it returned before.
C39_Witness ==
  /\ pc = "decided"
  /\ planner.seed # NoSeed
  /\ planner.epsilon = 0
  /\ planner.rollouts = 2
  /\ planner.decisions = MaxDecisions
  /\ Len(planner.legal) = 4
  /\ planner.chosen[1].type = "attack"
  /\ planner.returned = {planner.chosen[1]}

----------------------------------------------------------------------------
(* A call that raises                                                      *)

\* What a raising resolve_action call reported: KeyError from state.get,
\* ValueError and IndexError from choose_attack, ValueError from the dice
\* parser and from the dispatch.
RaiseKinds == {"unknown_id", "no_attacks", "attack_index", "invalid_dice", "unsupported_action"}

\* C40: when resolve_action raises (unknown actor or target id, attack_index
\* out of range, actor with no attacks, invalid dice expression), the combat
\* state is as before the call (no hp, flag or heals_remaining has changed)
\* and no events, partial or other, are returned.
C40_RaiseLeavesState ==
  [][(pc = "call" /\ pc' = "raised")
       => /\ last'.error \in RaiseKinds
          /\ combatants' = combatants
          /\ log' = <<>>
          /\ UNCHANGED <<round_num, turn_index, initiative_order>>]_vars

\* A hit whose damage expression does not parse: the attack roll and the hit
\* had been collected when the call raised.
C40_Witness ==
  /\ pc = "raised"
  /\ last.error = "invalid_dice"
  /\ last.type = "attack"
  /\ last.hit
  /\ log = <<>>
  /\ alive(combatants[2])

====
